---- MODULE Spec2Model ----
(***************************************************************************)
(* freighter: micro controllers (redis, postgres, clair) built on the      *)
(* kustomize base controller KustCtrl.  Each controller renders a base     *)
(* manifest set plus an overlay, upserts the rendered objects against the  *)
(* kubernetes API, reports a Status and advertises connection data (Ads).  *)
(*                                                                         *)
(* Conventions of the model:                                               *)
(*   - a Go error is a sequence of messages, outermost first, one per      *)
(*     fmt.Errorf("...: %w") wrapping; <<>> is nil;                         *)
(*   - a Go pointer / optional value is a sequence of length 0 or 1;       *)
(*   - the remote store maps (kind, namespace, name) to an object;         *)
(*   - a remote failure is an input of the call: Fault names the store     *)
(*     operation (or the caller-registered mutator) that fails.            *)
(***************************************************************************)
EXTENDS Integers, Sequences, FiniteSets, TLC

VARIABLES
    mc,      \* the component the caller operates on
    from,    \* the embedded manifest tree handed to NewKustCtrl
    ctl,     \* the controllers: component -> struct (KustCtrl fields included)
    store,   \* remote store: object key -> object
    rsets,   \* remote store: the ReplicaSet objects
    pods,    \* remote store: the Pod objects
    ret,     \* what the last call returned, and the operations it issued
    hist,    \* history: what the calls so far did
    drv,     \* the driver (main): its position, its locals and what it called
    lab,     \* an Ads value a program works on, and its last call on it
    procs    \* concurrent Applies of one database identity: each one's position

vars == <<mc, from, ctl, store, rsets, pods, ret, hist, drv, lab, procs>>

----------------------------------------------------------------------------
(* Bounds of the model.                                                    *)

\* number of distinct credential pairs uuid.New() can produce
NumUUIDs == 2
\* largest replica counter the platform reports
MaxReplicas == 1

----------------------------------------------------------------------------
(* infra/mctrl/mctrl.go                                                    *)

NotAppliedOverlay == ""
BaseOverlay == "base"
ScaleDownOverlay == "scale-down"

Comps == {"redis", "postgres", "clair"}

NoErr == <<>>

\* fmt.Errorf("msg: %w", err)
Wrap(msg, err) == <<msg>> \o err

\* strings.Join(elems, sep)
RECURSIVE Join(_, _)
Join(elems, sep) ==
    IF elems = <<>> THEN ""
    ELSE IF Len(elems) = 1 THEN elems[1]
    ELSE elems[1] \o sep \o Join(Tail(elems), sep)

\* An Ads value: the struct with its dict field; a nil dict has isnil set.
EmptyDict == [k \in {} |-> ""]
ZeroAds == [isnil |-> TRUE, dict |-> EmptyDict]

\* a loop that also misses an index advertised with the empty string
RECURSIVE MissingOrEmpty(_, _)
MissingOrEmpty(a, indexes) ==
    IF indexes = <<>> THEN <<>>
    ELSE IF Head(indexes) \in DOMAIN a.dict /\ a.dict[Head(indexes)] # ""
         THEN MissingOrEmpty(a, Tail(indexes))
         ELSE <<Head(indexes)>> \o MissingOrEmpty(a, Tail(indexes))

\* Ads.Contains, its loop: the indexes that are not keys of the dict, in order
RECURSIVE Missing(_, _)
Missing(a, indexes) ==
    IF indexes = <<>> THEN <<>>
    ELSE IF Head(indexes) \in DOMAIN a.dict
         THEN Missing(a, Tail(indexes))
         ELSE <<Head(indexes)>> \o Missing(a, Tail(indexes))

\* a loop that gives up at the first index it misses
RECURSIVE MissingFirst(_, _)
MissingFirst(a, indexes) ==
    IF indexes = <<>> THEN <<>>
    ELSE IF Head(indexes) \in DOMAIN a.dict
         THEN MissingFirst(a, Tail(indexes))
         ELSE <<Head(indexes)>>

\* a Contains that reports the first missing index only
AdsContainsFirst(a, indexes) ==
    LET missing == MissingFirst(a, indexes)
    IN  IF Len(missing) > 0
        THEN <<Join(missing, ",") \o " indexes not advertised">>
        ELSE NoErr

\* Ads.Contains: nil, or the error naming the missing indexes
AdsContains(a, indexes) ==
    LET missing == Missing(a, indexes)
    IN  IF Len(missing) > 0
        THEN <<Join(missing, ",") \o " indexes not advertised">>
        ELSE NoErr

\* Ads.Get
AdsGet(a, idx) ==
    IF a.isnil THEN ""
    ELSE IF idx \in DOMAIN a.dict THEN a.dict[idx] ELSE ""

\* Ads.Delete
AdsDelete(a, idx) ==
    IF a.isnil THEN a
    ELSE [a EXCEPT !.dict = [k \in DOMAIN a.dict \ {idx} |-> a.dict[k]]]

\* a Put that keeps the value an index already has
AdsPutIfAbsent(a, idx, val) ==
    LET d == IF a.isnil THEN EmptyDict ELSE a.dict
    IN  [isnil |-> FALSE,
         dict |-> [k \in DOMAIN d \cup {idx} |-> IF k \in DOMAIN d THEN d[k] ELSE val]]

\* Ads.Put
AdsPut(a, idx, val) ==
    LET d == IF a.isnil THEN EmptyDict ELSE a.dict
    IN  [isnil |-> FALSE,
         dict |-> [k \in DOMAIN d \cup {idx} |-> IF k = idx THEN val ELSE d[k]]]

----------------------------------------------------------------------------
(* infra/resource: ToObject and ToCondition                                *)

Gvk(group, version, kind) == [Group |-> group, Version |-> version, Kind |-> kind]

MappedGvks ==
    { Gvk("", "v1", "Secret"), Gvk("", "v1", "Service"),
      Gvk("", "v1", "ServiceAccount"), Gvk("", "v1", "PersistentVolumeClaim"),
      Gvk("apps", "v1", "Deployment"),
      Gvk("autoscaling", "v2beta2", "HorizontalPodAutoscaler") }

\* ToObject: the typed object of a rendered resource, or the unmapped-type error.
\* The typed object keeps the resource's metadata and payload.
ToObject(res) ==
    IF res.gvk \in MappedGvks
    THEN [err |-> NoErr,
          obj |-> [kind |-> res.gvk.Kind, namespace |-> res.namespace,
                   name |-> res.name, orefs |-> <<>>,
                   data |-> res.data, replicas |-> res.replicas]]
    ELSE [err |-> <<"unmapped type " \o res.gvk.Group \o "/" \o res.gvk.Version
                     \o " " \o res.gvk.Kind>>,
          obj |-> <<>>]

\* ToCondition on an appsv1.DeploymentCondition: the JSON round trip keeps the
\* fields metav1.Condition shares with it, drops lastUpdateTime and leaves
\* observedGeneration at its zero value.  The conditions the platform reports all decode.
\* On an input whose lastTransitionTime does not decode as a time
\* json.Unmarshal fails and the zero condition is returned with the error.
ToCondition(in) ==
    IF in.lastTransitionTime = "not a time"
    THEN [err |-> <<"parsing time \"not a time\"">>,
          cond |-> [type |-> "", status |-> "", observedGeneration |-> 0,
                    lastTransitionTime |-> "", reason |-> "", message |-> ""]]
    ELSE [err |-> NoErr,
          cond |-> [type |-> in.type, status |-> in.status, observedGeneration |-> 0,
                    lastTransitionTime |-> in.lastTransitionTime,
                    reason |-> in.reason, message |-> in.message]]

----------------------------------------------------------------------------
(* The embedded manifest tree (embed.FS) and the kustomize run.            *)

\* path.Join("kustomize", overlay)
PathJoin(a, b) == IF b = "" THEN a ELSE a \o "/" \o b

\* a resource template of the tree
Res(gvk, name, replicas) ==
    [gvk |-> gvk, namespace |-> "", name |-> name, data |-> EmptyDict,
     replicas |-> replicas]

\* the name of the component's Deployment and Service in its manifests
WorkloadName(c) ==
    CASE c = "postgres" -> "database"
      [] c = "redis" -> "redis"
      [] c = "clair" -> "clair"

\* The resources a directory of the tree renders to, before name prefixing and
\* secret generation: the base set, with the Deployment's replicas as the
\* directory leaves them.
DirResources(c, replicas) ==
    << Res(Gvk("", "v1", "Service"), WorkloadName(c), <<>>),
       Res(Gvk("apps", "v1", "Deployment"), WorkloadName(c), replicas) >>

ConfigMapRes == Res(Gvk("", "v1", "ConfigMap"), "extras", <<>>)

\* Two trees a program may embed.  "layout" is the documented layout: base plus
\* overlays, the Deployment declaring one replica.  "rooted" also holds a
\* kustomization.yaml at the root of kustomize/, and its base Deployment
\* declares no replica count.  In both the scale-down overlay patches the
\* replicas to 0 and the extras overlay adds a ConfigMap.
TreeShapes == {"layout", "rooted"}

TreeOf(c, shape) ==
    LET declared == IF shape = "layout" THEN <<1>> ELSE <<>>
        overlays ==
            [d \in { PathJoin("kustomize", BaseOverlay),
                     PathJoin("kustomize", ScaleDownOverlay),
                     PathJoin("kustomize", "extras") } |->
                IF d = PathJoin("kustomize", ScaleDownOverlay)
                THEN DirResources(c, <<0>>)
                ELSE IF d = PathJoin("kustomize", "extras")
                THEN IF shape = "layout"
                     THEN <<ConfigMapRes>> \o DirResources(c, declared)
                     ELSE DirResources(c, declared) \o <<ConfigMapRes>>
                ELSE DirResources(c, declared)]
    IN  IF shape = "rooted"
        THEN [d \in DOMAIN overlays \cup {"kustomize"} |->
                 IF d = "kustomize" THEN DirResources(c, declared) ELSE overlays[d]]
        ELSE overlays

\* the base kustomization as decoded from BaseKustomizationPath
BaseKustomization == [NamePrefix |-> "", SecretGenerator |-> <<>>]

\* a secret the generator emits for one SecretArgs: each literal source
\* "key=value" becomes the entry key -> value of the secret's data
RECURSIVE LiteralData(_)
LiteralData(lits) ==
    IF lits = <<>> THEN EmptyDict
    ELSE LET rest == LiteralData(Tail(lits))
             l == Head(lits)
         IN  [k \in DOMAIN rest \cup {l.key} |->
                 IF k \in DOMAIN rest THEN rest[k] ELSE l.value]

GeneratedSecret(kust, args) ==
    [gvk |-> Gvk("", "v1", "Secret"), namespace |-> "",
     name |-> kust.NamePrefix \o args.Name,
     data |-> LiteralData(args.LiteralSources), replicas |-> <<>>]

\* krusty.Kustomizer.Run on directory dir of the tree whose base kustomization
\* is kust: the directory's resources, names prefixed, then the generated
\* secrets; an error when the directory holds no kustomization.
KustomizeRun(tree, kust, dir) ==
    IF dir \notin DOMAIN tree
    THEN [err |-> <<"unable to find a kustomization file under " \o dir>>,
          res |-> <<>>]
    ELSE [err |-> NoErr,
          res |-> [i \in 1..Len(tree[dir]) |->
                      [tree[dir][i] EXCEPT !.name = kust.NamePrefix \o @]]
                  \o [i \in 1..Len(kust.SecretGenerator) |->
                         GeneratedSecret(kust, kust.SecretGenerator[i])]]

----------------------------------------------------------------------------
(* The remote store (controller-runtime client).                           *)

Key(kind, namespace, name) == [kind |-> kind, namespace |-> namespace, name |-> name]
ObjKey(obj) == Key(obj.kind, obj.namespace, obj.name)

\* the status a workload has before the platform reports anything
ZeroStatus == [available |-> 0, updated |-> 0, conditions |-> <<>>]

\* the UID the store gives an object it creates
UIDOf(key) == "uid-" \o key.kind \o "-" \o key.namespace \o "-" \o key.name

\* What the store holds for obj after a write: the written fields, with the
\* UID and the platform-owned status of the object it replaces, if any.
Stored(st, obj) ==
    LET k == ObjKey(obj)
    IN  [kind |-> obj.kind, namespace |-> obj.namespace, name |-> obj.name,
         orefs |-> obj.orefs, data |-> obj.data, replicas |-> obj.replicas,
         uid |-> UIDOf(k),
         status |-> IF k \in DOMAIN st THEN st[k].status ELSE ZeroStatus]

\* client.Patch(ctx, obj, client.Apply, ...): create-or-patch of one object
Upsert(st, obj) ==
    [k \in DOMAIN st \cup {ObjKey(obj)} |->
        IF k = ObjKey(obj) THEN Stored(st, obj) ELSE st[k]]

\* the error a failing remote call returns
RemoteErr == <<"remote store unavailable">>

\* A fault is an input of a call: no fault, or the n-th invocation of one
\* operation failing.
NoFault == [op |-> "none", n |-> 0]
FaultAt(op, n) == [op |-> op, n |-> n]

\* An entry of the record of operations a call issued: the operation, what it
\* was given (a mutator's name, a directory), the object's key, the index of
\* the object in rendered order (0 when there is none) and the outcome
\* ("ok", "notfound" or "error").
Ev(op, what, key, i, outcome) ==
    [op |-> op, what |-> what, key |-> key, i |-> i, outcome |-> outcome]
NoKey == Key("", "", "")

\* sct.Data[k] of a secret read back: the empty string when k is no key
DataGet(data, k) == IF k \in DOMAIN data THEN data[k] ELSE ""

----------------------------------------------------------------------------
(* The controllers: New and the options.                                   *)

NoRef == [apiVersion |-> "", name |-> "", kind |-> "", uid |-> ""]

\* cmd/freighter/main.go: the owner reference and the options main passes
TestingRef ==
    [apiVersion |-> "v1", name |-> "testing", kind |-> "ConfigMap",
     uid |-> "uid-ConfigMap-rmarasch-testing"]

WithNamespace(namespace) == [opt |-> "WithNamespace", str |-> namespace, oref |-> NoRef]
WithNamePrefix(prefix) == [opt |-> "WithNamePrefix", str |-> prefix, oref |-> NoRef]
WithOwnerReference(oref) == [opt |-> "WithOwnerReference", str |-> "", oref |-> oref]

\* an object-level mutator: what it does and the value it closes over
OMut(fn, namespace, oref) == [fn |-> fn, namespace |-> namespace, oref |-> oref]

\* opt(p): one option applied to the controller p of component c.  Only the
\* postgres controller also keeps the owner reference in its ownerRef field.
ApplyOption(c, p, o) ==
    CASE o.opt = "WithOwnerReference" ->
            [p EXCEPT !.ownerRef = IF c = "postgres" THEN <<o.oref>> ELSE @,
                      !.OMutators = Append(@, OMut("AppendOwnerReference", "", o.oref))]
      [] o.opt = "WithNamespace" ->
            [p EXCEPT !.namespace = o.str,
                      !.OMutators = Append(@, OMut("SetNamespace", o.str, NoRef))]
      [] o.opt = "WithNamePrefix" ->
            [p EXCEPT !.namePrefix = o.str]

RECURSIVE ApplyOptions(_, _, _)
ApplyOptions(c, p, opts) ==
    IF opts = <<>> THEN p
    ELSE ApplyOptions(c, ApplyOption(c, p, Head(opts)), Tail(opts))

\* New(cli, opts...) of component c, NewKustCtrl included
New(c, opts) ==
    ApplyOptions(c,
        [overlay |-> NotAppliedOverlay, fowner |-> "undefined",
         KMutators |-> <<"mutateKustomization">>, OMutators |-> <<>>,
         namespace |-> "default", namePrefix |-> "undefined",
         ownerRef |-> <<>>],
        opts)

\* the options main passes to postgres.New and to clair.New
MainOptions ==
    << WithNamespace("rmarasch"), WithNamePrefix("clair"),
       WithOwnerReference(TestingRef) >>

\* An object-level mutator the embedding program appends to the exported
\* OMutators field; it changes nothing and fails when the call's fault says so.
CustomOMutator == OMut("custom", "", NoRef)

----------------------------------------------------------------------------
(* ctrls/postgres: credentials                                             *)

\* the two values uuid.New().String() returns in the gen-th possible draw
NewUUIDs(gen) ==
    [pass |-> "uuid-" \o ToString(2 * gen - 1), rootpass |-> "uuid-" \o ToString(2 * gen)]

\* an access-data secret that is given no owner
AccessDataUnowned(p, data) ==
    [kind |-> "Secret", namespace |-> p.namespace,
     name |-> p.namePrefix \o "-pgsql-access-data",
     orefs |-> <<>>,
     data |-> [k \in {"pass", "rootpass"} |-> data[k]],
     replicas |-> <<>>]

\* nsn of ensurePsqlSecretData: the name of controller p's access-data secret
CredKeyOf(p) == Key("Secret", p.namespace, p.namePrefix \o "-pgsql-access-data")

\* the access-data secret as ensurePsqlSecretData builds it
AccessDataSecret(p, data) ==
    [kind |-> "Secret", namespace |-> p.namespace,
     name |-> p.namePrefix \o "-pgsql-access-data",
     orefs |-> p.ownerRef,
     data |-> [k \in {"pass", "rootpass"} |-> data[k]],
     replicas |-> <<>>]

\* an ensurePsqlSecretData that generates and creates without reading first
EnsureAlwaysCreates(p, st, fault, gen) ==
    LET data == NewUUIDs(gen)
        sct == AccessDataSecret(p, data)
    IN  [store |-> Upsert(st, sct), pass |-> data.pass, rootpass |-> data.rootpass,
         err |-> NoErr,
         calls |-> <<Ev("Create", "", ObjKey(sct), 0, "ok")>>]

\* an ensurePsqlSecretData that reads the record and returns newly drawn
\* passwords all the same
EnsureDrawsAnew(p, st, fault, gen) ==
    LET nsn == Key("Secret", p.namespace, p.namePrefix \o "-pgsql-access-data")
        data == NewUUIDs(gen)
        sct == AccessDataSecret(p, data)
    IN  IF fault = FaultAt("Get", 1)
        THEN [store |-> st, pass |-> "", rootpass |-> "",
              err |-> Wrap("error reading pgsql access data", RemoteErr),
              calls |-> <<Ev("Get", "", nsn, 0, "error")>>]
        ELSE IF nsn \in DOMAIN st
        THEN [store |-> st, pass |-> data.pass, rootpass |-> data.rootpass,
              err |-> NoErr,
              calls |-> <<Ev("Get", "", nsn, 0, "ok")>>]
        ELSE IF fault = FaultAt("Create", 1)
        THEN [store |-> st, pass |-> "", rootpass |-> "",
              err |-> Wrap("error creating pgsql secret data", RemoteErr),
              calls |-> <<Ev("Get", "", nsn, 0, "notfound"),
                          Ev("Create", "", nsn, 0, "error")>>]
        ELSE [store |-> Upsert(st, sct), pass |-> data.pass,
              rootpass |-> data.rootpass, err |-> NoErr,
              calls |-> <<Ev("Get", "", nsn, 0, "notfound"),
                          Ev("Create", "", nsn, 0, "ok")>>]

\* Postgres.ensurePsqlSecretData: the store afterwards, the passwords returned,
\* the error and the store operations issued
ensurePsqlSecretData(p, st, fault, gen) ==
    LET nsn == Key("Secret", p.namespace, p.namePrefix \o "-pgsql-access-data")
        data == NewUUIDs(gen)
        sct == AccessDataSecret(p, data)
    IN  IF fault = FaultAt("Get", 1)
        THEN [store |-> st, pass |-> "", rootpass |-> "",
              err |-> Wrap("error reading pgsql access data", RemoteErr),
              calls |-> <<Ev("Get", "", nsn, 0, "error")>>]
        ELSE IF nsn \in DOMAIN st
        THEN [store |-> st, pass |-> DataGet(st[nsn].data, "pass"),
              rootpass |-> DataGet(st[nsn].data, "rootpass"),
              err |-> NoErr,
              calls |-> <<Ev("Get", "", nsn, 0, "ok")>>]
        ELSE IF fault = FaultAt("Create", 1)
        THEN [store |-> st, pass |-> "", rootpass |-> "",
              err |-> Wrap("error creating pgsql secret data", RemoteErr),
              calls |-> <<Ev("Get", "", nsn, 0, "notfound"),
                          Ev("Create", "", nsn, 0, "error")>>]
        ELSE [store |-> Upsert(st, sct), pass |-> data.pass,
              rootpass |-> data.rootpass, err |-> NoErr,
              calls |-> <<Ev("Get", "", nsn, 0, "notfound"),
                          Ev("Create", "", nsn, 0, "ok")>>]

----------------------------------------------------------------------------
(* The template-level mutators of the three controllers.                   *)

Literal(key, value) == [key |-> key, value |-> value]

SecretArgs(name, literals) == [Name |-> name, LiteralSources |-> literals]

\* what a template-level mutator returns: the store (the postgres one may
\* write to it), the kustomization, the error, the operations issued and the
\* credentials read (empty when none were)
KMutResult(st, kust, err, calls, cred) ==
    [store |-> st, kust |-> kust, err |-> err, calls |-> calls, cred |-> cred]

\* Postgres.mutateKustomization, after the credentials e were ensured
PostgresKustomization(p, kust, e) ==
    IF e.err # NoErr
    THEN KMutResult(e.store, kust, Wrap("error ensuring pgsql secret data", e.err),
                    e.calls, <<>>)
    ELSE KMutResult(e.store,
                    [kust EXCEPT
                        !.NamePrefix = p.namePrefix \o "-",
                        !.SecretGenerator =
                            <<SecretArgs("postgres-config-secret",
                                << Literal("database-username", "user"),
                                   Literal("database-name", "database"),
                                   Literal("database-password", e.pass),
                                   Literal("database-root-password", e.rootpass) >>)>>],
                    NoErr, e.calls, <<e.pass, e.rootpass>>)

\* Postgres.mutateKustomization
PostgresMutateKustomization(p, st, kust, ads, fault, gen) ==
    PostgresKustomization(p, kust, ensurePsqlSecretData(p, st, fault, gen))

\* Redis.mutateKustomization
RedisMutateKustomization(p, st, kust, ads, fault, gen) ==
    KMutResult(st, [kust EXCEPT !.NamePrefix = p.namePrefix \o "-"], NoErr, <<>>, <<>>)

NeededAds == <<"dbhost", "dbport", "dbname", "dbrootuser", "dbrootpass">>

\* a connection string that logs in as the plain user
ConnStringAsUser(ads) ==
    "host=" \o AdsGet(ads, "dbhost") \o " port=" \o AdsGet(ads, "dbport")
    \o " dbname=" \o AdsGet(ads, "dbname") \o " user=" \o AdsGet(ads, "dbuser")
    \o " password=" \o AdsGet(ads, "dbpass") \o " sslmode=disable"

\* the connection string buildClairConfig formats
ConnString(ads) ==
    "host=" \o AdsGet(ads, "dbhost") \o " port=" \o AdsGet(ads, "dbport")
    \o " dbname=" \o AdsGet(ads, "dbname") \o " user=" \o AdsGet(ads, "dbrootuser")
    \o " password=" \o AdsGet(ads, "dbrootpass") \o " sslmode=disable"

\* Clair.buildClairConfig: the config (its three connection strings) or the error
buildClairConfig(ads) ==
    LET err == AdsContains(ads, NeededAds)
        connstr == ConnString(ads)
    IN  IF err # NoErr
        THEN [err |-> Wrap("missing advertised data", err), config |-> <<>>]
        ELSE [err |-> NoErr,
              config |-> <<[Indexer |-> connstr, Matcher |-> connstr,
                            Notifier |-> connstr]>>]

\* yaml.Marshal(config), as far as the connection strings go
MarshalConfig(config) ==
    "indexer: {connstring: " \o config.Indexer \o "} matcher: {connstring: "
    \o config.Matcher \o "} notifier: {connstring: " \o config.Notifier \o "}"

\* Clair.mutateKustomization, after the config b was built
ClairKustomization(p, st, kust, b) ==
    IF b.err # NoErr
    THEN KMutResult(st, kust, Wrap("unable to build clair config", b.err), <<>>, <<>>)
    ELSE KMutResult(st,
                    [kust EXCEPT
                        !.NamePrefix = p.namePrefix \o "-",
                        !.SecretGenerator =
                            <<SecretArgs("clair-config",
                                <<Literal("config.yaml", MarshalConfig(b.config[1]))>>)>>],
                    NoErr, <<>>, <<>>)

\* Clair.mutateKustomization
ClairMutateKustomization(p, st, kust, ads, fault, gen) ==
    ClairKustomization(p, st, kust, buildClairConfig(ads))

\* the template-level mutator New registers for component c
KMutator(c, p, st, kust, ads, fault, gen) ==
    CASE c = "postgres" -> PostgresMutateKustomization(p, st, kust, ads, fault, gen)
      [] c = "redis" -> RedisMutateKustomization(p, st, kust, ads, fault, gen)
      [] c = "clair" -> ClairMutateKustomization(p, st, kust, ads, fault, gen)

----------------------------------------------------------------------------
(* infra/mctrl/kustmctrl.go: KustCtrl                                      *)

\* A template-level mutator the embedding program appends to the exported
\* KMutators field; it changes nothing and fails when the call's fault says so.
CustomKMutator(st, kust, fault) ==
    KMutResult(st, kust,
               IF fault = FaultAt("KMutator", 1) THEN <<"kustomization rejected">>
               ELSE NoErr,
               <<>>, <<>>)

\* KustCtrl.mutateKustomization, its loop over the KMutators from the first of
\* muts on: each is fed the kustomization as the ones before it left it, and
\* the first error ends the loop.  KMutatorDone is the loop's body once the
\* mutator returned r.
RECURSIVE RunKMutators(_, _, _, _, _, _, _, _)
RECURSIVE KMutatorDone(_, _, _, _, _, _, _, _)
KMutatorDone(c, p, muts, kust, ads, fault, gen, r) ==
    IF r.err # NoErr
    THEN KMutResult(r.store, kust, Wrap("error mutating kustomization", r.err),
                    <<Ev("KMutator", Head(muts), NoKey, 0, "error")>> \o r.calls,
                    <<>>)
    ELSE LET rest == RunKMutators(c, p, Tail(muts), r.store, r.kust, ads, fault, gen)
         IN  KMutResult(rest.store, rest.kust, rest.err,
                        <<Ev("KMutator", Head(muts), NoKey, 0, "ok")>>
                            \o r.calls \o rest.calls,
                        IF rest.cred # <<>> THEN rest.cred ELSE r.cred)

RunKMutators(c, p, muts, st, kust, ads, fault, gen) ==
    IF muts = <<>> THEN KMutResult(st, kust, NoErr, <<>>, <<>>)
    ELSE KMutatorDone(c, p, muts, kust, ads, fault, gen,
                      IF Head(muts) = "custom"
                      THEN CustomKMutator(st, kust, fault)
                      ELSE KMutator(c, p, st, kust, ads, fault, gen))

\* KustCtrl.mutateKustomization: the base kustomization after the KMutators
KustCtrlMutateKustomization(c, p, st, ads, fault, gen) ==
    IF Len(p.KMutators) = 0
    THEN KMutResult(st, BaseKustomization, NoErr, <<>>, <<>>)
    ELSE RunKMutators(c, p, p.KMutators, st, BaseKustomization, ads, fault, gen)

\* KustCtrl.parse, its loop over the rendered resources: the typed objects, or
\* the first conversion error and no object at all
\* a conversion that leaves out the resources with no typed form
RECURSIVE ToObjectsOfMapped(_)
ToObjectsOfMapped(res) ==
    IF res = <<>> THEN [err |-> NoErr, objs |-> <<>>]
    ELSE LET o == ToObject(Head(res))
             rest == ToObjectsOfMapped(Tail(res))
         IN  IF o.err # NoErr
             THEN rest
             ELSE [err |-> NoErr, objs |-> <<o.obj>> \o rest.objs]

RECURSIVE ToObjects(_)
ToObjects(res) ==
    IF res = <<>> THEN [err |-> NoErr, objs |-> <<>>]
    ELSE LET o == ToObject(Head(res))
             rest == ToObjects(Tail(res))
         IN  IF o.err # NoErr
             THEN [err |-> Wrap("error parsing object", o.err), objs |-> <<>>]
             ELSE IF rest.err # NoErr
             THEN rest
             ELSE [err |-> NoErr, objs |-> <<o.obj>> \o rest.objs]

ParseResult(st, objs, err, calls, cred) ==
    [store |-> st, objs |-> objs, err |-> err, calls |-> calls, cred |-> cred]

\* a parse that runs kustomize before the template-level mutators
ParseRunFirst(dir, m, conv) ==
    ParseResult(m.store, conv.objs, conv.err,
                <<Ev("Run", dir, NoKey, 0, "ok")>> \o m.calls, m.cred)

\* KustCtrl.parse, after the resources were converted
ParseConverted(dir, m, conv) ==
    ParseResult(m.store, conv.objs, conv.err,
                m.calls \o <<Ev("Run", dir, NoKey, 0, "ok")>>, m.cred)

\* KustCtrl.parse, after kustomize ran
ParseRendered(dir, m, run) ==
    IF run.err # NoErr
    THEN ParseResult(m.store, <<>>, Wrap("error running kustomize", run.err),
                     m.calls \o <<Ev("Run", dir, NoKey, 0, "error")>>, m.cred)
    ELSE ParseConverted(dir, m, ToObjects(run.res))

\* KustCtrl.parse, after the base kustomization was mutated
ParseMutated(tree, dir, m) ==
    IF m.err # NoErr
    THEN ParseResult(m.store, <<>>, Wrap("error setting object name prefix", m.err),
                     m.calls, m.cred)
    ELSE ParseRendered(dir, m, KustomizeRun(tree, m.kust, dir))

\* KustCtrl.parse
parse(c, p, tree, st, overlay, ads, fault, gen) ==
    ParseMutated(tree, PathJoin("kustomize", overlay),
                 KustCtrlMutateKustomization(c, p, st, ads, fault, gen))

\* one object-level mutator applied to an object
ApplyOMutator(m, obj) ==
    CASE m.fn = "AppendOwnerReference" -> [obj EXCEPT !.orefs = Append(@, m.oref)]
      [] m.fn = "SetNamespace" -> [obj EXCEPT !.namespace = m.namespace]
      [] OTHER -> obj

\* an inner loop that goes on with the next mutator after one failed
RECURSIVE MutateObjectKeepGoing(_, _, _, _)
MutateObjectKeepGoing(muts, obj, i, fault) ==
    IF muts = <<>> THEN [obj |-> obj, err |-> NoErr, calls |-> <<>>]
    ELSE LET failed == Head(muts).fn = "custom" /\ fault = FaultAt("OMutator", i)
             rest == MutateObjectKeepGoing(Tail(muts),
                        IF failed THEN obj ELSE ApplyOMutator(Head(muts), obj),
                        i, fault)
         IN  [obj |-> rest.obj,
              err |-> IF failed THEN <<"object rejected">> ELSE rest.err,
              calls |-> <<Ev("OMutator", Head(muts).fn, ObjKey(obj), i,
                             IF failed THEN "error" ELSE "ok")>> \o rest.calls]

\* KustCtrl.Apply, its inner loop: the mutators muts applied in order to the
\* i-th rendered object; the first error ends the loop
RECURSIVE MutateObject(_, _, _, _)
MutateObject(muts, obj, i, fault) ==
    IF muts = <<>> THEN [obj |-> obj, err |-> NoErr, calls |-> <<>>]
    ELSE IF Head(muts).fn = "custom" /\ fault = FaultAt("OMutator", i)
    THEN [obj |-> obj, err |-> <<"object rejected">>,
          calls |-> <<Ev("OMutator", Head(muts).fn, ObjKey(obj), i, "error")>>]
    ELSE LET rest == MutateObject(Tail(muts), ApplyOMutator(Head(muts), obj), i, fault)
         IN  [obj |-> rest.obj, err |-> rest.err,
              calls |-> <<Ev("OMutator", Head(muts).fn, ObjKey(obj), i, "ok")>>
                        \o rest.calls]

\* a loop over the objects that skips an object it cannot mutate or patch and
\* goes on with the next one
RECURSIVE ApplyObjectsKeepGoing(_, _, _, _, _)
ApplyObjectsKeepGoing(objs, i, p, st, fault) ==
    IF i > Len(objs) THEN [store |-> st, err |-> NoErr, calls |-> <<>>]
    ELSE LET mo == MutateObject(p.OMutators, objs[i], i, fault)
             failed == mo.err # NoErr \/ fault = FaultAt("Patch", i)
             rest == ApplyObjectsKeepGoing(objs, i + 1, p,
                        IF failed THEN st ELSE Upsert(st, mo.obj), fault)
         IN  [store |-> rest.store,
              err |-> IF mo.err # NoErr THEN Wrap("error mutating object", mo.err)
                      ELSE IF failed THEN Wrap("error patching object", RemoteErr)
                      ELSE rest.err,
              calls |-> mo.calls
                        \o (IF mo.err # NoErr THEN <<>>
                            ELSE <<Ev("Patch", "", ObjKey(mo.obj), i,
                                      IF failed THEN "error" ELSE "ok")>>)
                        \o rest.calls]

\* KustCtrl.Apply, its loop over the objects from the i-th on: mutate, then
\* patch; return at the first failure.  ApplyMutated is the loop's body once
\* the object's mutators returned mo.
RECURSIVE ApplyObjects(_, _, _, _, _)
RECURSIVE ApplyMutated(_, _, _, _, _, _)
ApplyMutated(objs, i, p, st, fault, mo) ==
    IF mo.err # NoErr
    THEN [store |-> st, err |-> Wrap("error mutating object", mo.err),
          calls |-> mo.calls]
    ELSE IF fault = FaultAt("Patch", i)
    THEN [store |-> st, err |-> Wrap("error patching object", RemoteErr),
          calls |-> mo.calls \o <<Ev("Patch", "", ObjKey(mo.obj), i, "error")>>]
    ELSE LET rest == ApplyObjects(objs, i + 1, p, Upsert(st, mo.obj), fault)
         IN  [store |-> rest.store, err |-> rest.err,
              calls |-> mo.calls \o <<Ev("Patch", "", ObjKey(mo.obj), i, "ok")>>
                        \o rest.calls]

ApplyObjects(objs, i, p, st, fault) ==
    IF i > Len(objs) THEN [store |-> st, err |-> NoErr, calls |-> <<>>]
    ELSE ApplyMutated(objs, i, p, st, fault,
                      MutateObject(p.OMutators, objs[i], i, fault))

\* an Apply that records the overlay whatever the outcome
OverlayAlwaysRecorded(p, overlay, err) == overlay

\* KustCtrl.Apply, its last statement: k.overlay after the call
OverlayAfterApply(p, overlay, err) ==
    IF err = NoErr THEN overlay ELSE p.overlay

ApplyResult(st, overlay, err, calls, objs, cred) ==
    [store |-> st, overlay |-> overlay, err |-> err, calls |-> calls,
     objs |-> objs, cred |-> cred]

\* KustCtrl.Apply, after the loop over the objects returned lp
ApplyLooped(p, overlay, ps, lp) ==
    ApplyResult(lp.store, OverlayAfterApply(p, overlay, lp.err), lp.err,
                ps.calls \o lp.calls, ps.objs, ps.cred)

\* KustCtrl.Apply, after parse returned ps
ApplyParsed(p, overlay, fault, ps) ==
    IF ps.err # NoErr
    THEN ApplyResult(ps.store, OverlayAfterApply(p, overlay, ps.err),
                     Wrap("error parsing kustomize files", ps.err),
                     ps.calls, <<>>, ps.cred)
    ELSE ApplyLooped(p, overlay, ps, ApplyObjects(ps.objs, 1, p, ps.store, fault))

\* KustCtrl.Apply: the store and k.overlay afterwards, the error, the
\* operations issued, the objects parse returned and the credentials read
KustCtrlApply(c, p, tree, st, overlay, ads, fault, gen) ==
    ApplyParsed(p, overlay, fault, parse(c, p, tree, st, overlay, ads, fault, gen))

----------------------------------------------------------------------------
(* Advertise of the three controllers.                                     *)

AdvResult(ads, err, st, calls, cred) ==
    [ads |-> ads, err |-> err, store |-> st, calls |-> calls, cred |-> cred]

\* a Postgres.Advertise that advertises freshly drawn passwords
PostgresAdvertiseFresh(p, st, fault, gen) ==
    LET e == ensurePsqlSecretData(p, st, fault, gen)
        ad == [isnil |-> FALSE,
               dict |-> [k \in {"dbhost", "dbport", "dbuser", "dbpass", "dbname",
                                "dbrootuser", "dbrootpass"} |->
                           CASE k = "dbhost" ->
                                   p.namePrefix \o "-database." \o p.namespace \o ".svc"
                             [] k = "dbport" -> "5432"
                             [] k = "dbuser" -> "user"
                             [] k = "dbpass" -> NewUUIDs(gen).pass
                             [] k = "dbname" -> "database"
                             [] k = "dbrootuser" -> "postgres"
                             [] k = "dbrootpass" -> NewUUIDs(gen).rootpass]]
    IN  IF p.overlay = ScaleDownOverlay \/ p.overlay = NotAppliedOverlay
        THEN AdvResult(ZeroAds, NoErr, st, <<>>, <<>>)
        ELSE IF e.err # NoErr
        THEN AdvResult(ZeroAds, Wrap("error reading pgsql secret data", e.err),
                       e.store, e.calls, <<>>)
        ELSE AdvResult(ad, NoErr, e.store, e.calls, <<e.pass, e.rootpass>>)

\* a Postgres.Advertise that ensures the credential record whatever the overlay
PostgresAdvertiseEnsuring(p, st, fault, gen) ==
    LET e == ensurePsqlSecretData(p, st, fault, gen)
        ad1 == AdsPut(ZeroAds, "dbhost",
                      p.namePrefix \o "-database." \o p.namespace \o ".svc")
        ad2 == AdsPut(ad1, "dbport", "5432")
        ad3 == AdsPut(ad2, "dbuser", "user")
        ad4 == AdsPut(ad3, "dbpass", e.pass)
        ad5 == AdsPut(ad4, "dbname", "database")
        ad6 == AdsPut(ad5, "dbrootuser", "postgres")
        ad7 == AdsPut(ad6, "dbrootpass", e.rootpass)
    IN  IF e.err # NoErr
        THEN AdvResult(ZeroAds, Wrap("error reading pgsql secret data", e.err),
                       e.store, e.calls, <<>>)
        ELSE IF p.overlay = ScaleDownOverlay \/ p.overlay = NotAppliedOverlay
        THEN AdvResult(ZeroAds, NoErr, e.store, e.calls, <<>>)
        ELSE AdvResult(ad7, NoErr, e.store, e.calls, <<e.pass, e.rootpass>>)

\* Postgres.Advertise
PostgresAdvertise(p, st, fault, gen) ==
    LET e == ensurePsqlSecretData(p, st, fault, gen)
        ad1 == AdsPut(ZeroAds, "dbhost",
                      p.namePrefix \o "-database." \o p.namespace \o ".svc")
        ad2 == AdsPut(ad1, "dbport", "5432")
        ad3 == AdsPut(ad2, "dbuser", "user")
        ad4 == AdsPut(ad3, "dbpass", e.pass)
        ad5 == AdsPut(ad4, "dbname", "database")
        ad6 == AdsPut(ad5, "dbrootuser", "postgres")
        ad7 == AdsPut(ad6, "dbrootpass", e.rootpass)
    IN  IF p.overlay = ScaleDownOverlay \/ p.overlay = NotAppliedOverlay
        THEN AdvResult(ZeroAds, NoErr, st, <<>>, <<>>)
        ELSE IF e.err # NoErr
        THEN AdvResult(ZeroAds, Wrap("error reading pgsql secret data", e.err),
                       e.store, e.calls, <<>>)
        ELSE AdvResult(ad7, NoErr, e.store, e.calls, <<e.pass, e.rootpass>>)

\* a Redis.Advertise that does not look at the overlay
RedisAdvertiseAlways(p, st, fault, gen) ==
    AdvResult(AdsPut(AdsPut(ZeroAds, "address",
                            p.namePrefix \o "-redis." \o p.namespace \o ".svc"),
                     "port", "6379"),
              NoErr, st, <<>>, <<>>)

\* Redis.Advertise
RedisAdvertise(p, st, fault, gen) ==
    LET adv1 == AdsPut(ZeroAds, "address",
                       p.namePrefix \o "-redis." \o p.namespace \o ".svc")
        adv2 == AdsPut(adv1, "port", "6379")
    IN  IF p.overlay = ScaleDownOverlay \/ p.overlay = NotAppliedOverlay
        THEN AdvResult(ZeroAds, NoErr, st, <<>>, <<>>)
        ELSE AdvResult(adv2, NoErr, st, <<>>, <<>>)

\* Clair.Advertise
ClairAdvertise(p, st, fault, gen) ==
    IF p.overlay = ScaleDownOverlay
    THEN AdvResult(ZeroAds, NoErr, st, <<>>, <<>>)
    ELSE AdvResult(AdsPut(ZeroAds, "clair-addr",
                          p.namePrefix \o "-clair." \o p.namespace),
                   NoErr, st, <<>>, <<>>)

\* MicroController.Advertise of component c
AdvertiseOf(c, p, st, fault, gen) ==
    CASE c = "postgres" -> PostgresAdvertise(p, st, fault, gen)
      [] c = "redis" -> RedisAdvertise(p, st, fault, gen)
      [] c = "clair" -> ClairAdvertise(p, st, fault, gen)

----------------------------------------------------------------------------
(* Status of the three controllers.                                        *)

NoOverlayErr == <<"no overlay applied to the controller">>
NotFoundErr == <<"not found">>

MsgNotAvailable == "deployment not fully available yet"

StatusOf(ready, message, conds) ==
    [Ready |-> ready, Message |-> message, Conditions |-> conds]

\* what Status returns: the status (none when it failed), the error and the
\* store operations issued
StatusResult(status, err, calls) == [status |-> status, err |-> err, calls |-> calls]

\* a loop that leaves out the conditions it cannot convert
RECURSIVE ToConditionsConverted(_)
ToConditionsConverted(conds) ==
    IF conds = <<>> THEN [err |-> NoErr, conds |-> <<>>]
    ELSE LET one == ToCondition(Head(conds))
             rest == ToConditionsConverted(Tail(conds))
         IN  IF one.err # NoErr THEN rest
             ELSE [err |-> NoErr, conds |-> <<one.cond>> \o rest.conds]

\* the loop of Status over dep.Status.Conditions
RECURSIVE ToConditions(_)
ToConditions(conds) ==
    IF conds = <<>> THEN [err |-> NoErr, conds |-> <<>>]
    ELSE LET one == ToCondition(Head(conds))
             rest == ToConditions(Tail(conds))
         IN  IF one.err # NoErr THEN [err |-> one.err, conds |-> <<>>]
             ELSE IF rest.err # NoErr THEN rest
             ELSE [err |-> NoErr, conds |-> <<one.cond>> \o rest.conds]

\* client.List(..., client.InNamespace(ns))
ListIn(items, ns) == {o \in items : o.namespace = ns}

\* an owner test that looks at the UID alone
HasOwnerOfAnyKind(o, uids, kind) ==
    \E i \in DOMAIN o.orefs : o.orefs[i].uid \in uids

\* an object with an owner reference of the given kind to one of the uids
HasOwner(o, uids, kind) ==
    \E i \in DOMAIN o.orefs : o.orefs[i].uid \in uids /\ o.orefs[i].kind = kind

\* Postgres.hasDanglingPods
hasDanglingPods(p, dep, rs, ps, fault) ==
    LET rss == { r.uid : r \in { x \in ListIn(rs, p.namespace) :
                                   HasOwner(x, {dep.uid}, "Deployment") } }
        has == \E pod \in ListIn(ps, p.namespace) : HasOwner(pod, rss, "ReplicaSet")
    IN  IF fault = FaultAt("List", 1)
        THEN [has |-> FALSE, err |-> Wrap("error listing replicasets", RemoteErr),
              calls |-> <<Ev("List", "ReplicaSet", NoKey, 0, "error")>>]
        ELSE IF fault = FaultAt("List", 2)
        THEN [has |-> FALSE, err |-> Wrap("error listing replicasets", RemoteErr),
              calls |-> <<Ev("List", "ReplicaSet", NoKey, 0, "ok"),
                          Ev("List", "Pod", NoKey, 0, "error")>>]
        ELSE [has |-> has, err |-> NoErr,
              calls |-> <<Ev("List", "ReplicaSet", NoKey, 0, "ok"),
                          Ev("List", "Pod", NoKey, 0, "ok")>>]

\* a Get that answers from a copy kept when the Deployment was written, with
\* none of what the platform reported since
GetDeploymentAsWritten(c, p, st, fault) ==
    LET nsn == Key("Deployment", p.namespace, p.namePrefix \o "-" \o WorkloadName(c))
    IN  IF fault = FaultAt("Get", 1)
        THEN [dep |-> <<>>, err |-> RemoteErr,
              calls |-> <<Ev("Get", "", nsn, 0, "error")>>]
        ELSE IF nsn \notin DOMAIN st
        THEN [dep |-> <<>>, err |-> NotFoundErr,
              calls |-> <<Ev("Get", "", nsn, 0, "notfound")>>]
        ELSE [dep |-> <<[st[nsn] EXCEPT !.status = ZeroStatus]>>, err |-> NoErr,
              calls |-> <<Ev("Get", "", nsn, 0, "ok")>>]

\* client.Get of the component's Deployment: the object (none on failure) and
\* the error
GetDeployment(c, p, st, fault) ==
    LET nsn == Key("Deployment", p.namespace, p.namePrefix \o "-" \o WorkloadName(c))
    IN  IF fault = FaultAt("Get", 1)
        THEN [dep |-> <<>>, err |-> RemoteErr,
              calls |-> <<Ev("Get", "", nsn, 0, "error")>>]
        ELSE IF nsn \notin DOMAIN st
        THEN [dep |-> <<>>, err |-> NotFoundErr,
              calls |-> <<Ev("Get", "", nsn, 0, "notfound")>>]
        ELSE [dep |-> <<st[nsn]>>, err |-> NoErr,
              calls |-> <<Ev("Get", "", nsn, 0, "ok")>>]

\* *dep.Spec.Replicas, 0 when the pointer is nil
Declared(dep) == IF dep.replicas = <<>> THEN 0 ELSE dep.replicas[1]

\* Postgres.Status
PostgresStatus(p, st, rs, ps, fault) ==
    LET g == GetDeployment("postgres", p, st, fault)
        dep == g.dep[1]
        cv == ToConditions(dep.status.conditions)
        replicas == Declared(dep)
        dg == hasDanglingPods(p, dep, rs, ps, fault)
    IN  IF p.overlay = NotAppliedOverlay
        THEN StatusResult(<<>>, NoOverlayErr, <<>>)
        ELSE IF g.err # NoErr
        THEN StatusResult(<<>>, Wrap("unable to get deployment", g.err), g.calls)
        ELSE IF cv.err # NoErr
        THEN StatusResult(<<>>, Wrap("error processing condition", cv.err), g.calls)
        ELSE IF p.overlay # ScaleDownOverlay
        THEN IF replicas # dep.status.available
             THEN StatusResult(<<StatusOf(FALSE, MsgNotAvailable, cv.conds)>>,
                               NoErr, g.calls)
             ELSE StatusResult(<<StatusOf(TRUE, "deployment available", cv.conds)>>,
                               NoErr, g.calls)
        ELSE IF dg.err # NoErr
        THEN StatusResult(<<>>, Wrap("error checking for dangling pods", dg.err),
                          g.calls \o dg.calls)
        ELSE IF dg.has
        THEN StatusResult(<<StatusOf(FALSE, "deployment scaling down", cv.conds)>>,
                          NoErr, g.calls \o dg.calls)
        ELSE StatusResult(<<StatusOf(TRUE, "deployment scaled down", cv.conds)>>,
                          NoErr, g.calls \o dg.calls)

\* a Redis.Status that does not check that an overlay was applied
RedisStatusUnchecked(p, st, rs, ps, fault) ==
    LET g == GetDeployment("redis", p, st, fault)
        dep == g.dep[1]
        replicas == IF p.overlay # ScaleDownOverlay THEN Declared(dep) ELSE 0
        cv == ToConditions(dep.status.conditions)
    IN  IF g.err # NoErr
        THEN StatusResult(<<>>, Wrap("error getting deployment", g.err), g.calls)
        ELSE IF cv.err # NoErr
        THEN StatusResult(<<>>, Wrap("error converting condition", cv.err), g.calls)
        ELSE IF dep.status.available # replicas
        THEN StatusResult(<<StatusOf(FALSE, MsgNotAvailable, cv.conds)>>,
                          NoErr, g.calls)
        ELSE StatusResult(<<StatusOf(TRUE, "deployment ready", cv.conds)>>,
                          NoErr, g.calls)

\* a Status of the cache that compares with the declared count under every overlay
RedisStatusDeclared(p, st, rs, ps, fault) ==
    LET g == GetDeployment("redis", p, st, fault)
        dep == g.dep[1]
        replicas == Declared(dep)
        cv == ToConditions(dep.status.conditions)
    IN  IF p.overlay = NotAppliedOverlay
        THEN StatusResult(<<>>, NoOverlayErr, <<>>)
        ELSE IF g.err # NoErr
        THEN StatusResult(<<>>, Wrap("error getting deployment", g.err), g.calls)
        ELSE IF cv.err # NoErr
        THEN StatusResult(<<>>, Wrap("error converting condition", cv.err), g.calls)
        ELSE IF dep.status.available # replicas
        THEN StatusResult(<<StatusOf(FALSE, MsgNotAvailable, cv.conds)>>,
                          NoErr, g.calls)
        ELSE StatusResult(<<StatusOf(TRUE, "deployment ready", cv.conds)>>,
                          NoErr, g.calls)

\* Redis.Status
RedisStatus(p, st, rs, ps, fault) ==
    LET g == GetDeployment("redis", p, st, fault)
        dep == g.dep[1]
        replicas == IF p.overlay # ScaleDownOverlay THEN Declared(dep) ELSE 0
        cv == ToConditions(dep.status.conditions)
    IN  IF p.overlay = NotAppliedOverlay
        THEN StatusResult(<<>>, NoOverlayErr, <<>>)
        ELSE IF g.err # NoErr
        THEN StatusResult(<<>>, Wrap("error getting deployment", g.err), g.calls)
        ELSE IF cv.err # NoErr
        THEN StatusResult(<<>>, Wrap("error converting condition", cv.err), g.calls)
        ELSE IF dep.status.available # replicas
        THEN StatusResult(<<StatusOf(FALSE, MsgNotAvailable, cv.conds)>>,
                          NoErr, g.calls)
        ELSE StatusResult(<<StatusOf(TRUE, "deployment ready", cv.conds)>>,
                          NoErr, g.calls)

\* a Clair.Status that does not look at the updated replicas
ClairStatusNoUpdated(p, st, rs, ps, fault) ==
    LET g == GetDeployment("clair", p, st, fault)
        dep == g.dep[1]
        replicas == IF p.overlay # ScaleDownOverlay THEN Declared(dep) ELSE 0
        cv == ToConditions(dep.status.conditions)
    IN  IF p.overlay = NotAppliedOverlay
        THEN StatusResult(<<>>, NoOverlayErr, <<>>)
        ELSE IF g.err # NoErr
        THEN StatusResult(<<>>, Wrap("error getting deployment", g.err), g.calls)
        ELSE IF cv.err # NoErr
        THEN StatusResult(<<>>, Wrap("error converting condition", cv.err), g.calls)
        ELSE IF dep.status.available # replicas
        THEN StatusResult(<<StatusOf(FALSE, MsgNotAvailable, cv.conds)>>,
                          NoErr, g.calls)
        ELSE StatusResult(<<StatusOf(TRUE, "deployment ready", cv.conds)>>,
                          NoErr, g.calls)

\* Clair.Status
ClairStatus(p, st, rs, ps, fault) ==
    LET g == GetDeployment("clair", p, st, fault)
        dep == g.dep[1]
        replicas == IF p.overlay # ScaleDownOverlay THEN Declared(dep) ELSE 0
        cv == ToConditions(dep.status.conditions)
    IN  IF p.overlay = NotAppliedOverlay
        THEN StatusResult(<<>>, NoOverlayErr, <<>>)
        ELSE IF g.err # NoErr
        THEN StatusResult(<<>>, Wrap("error getting deployment", g.err), g.calls)
        ELSE IF cv.err # NoErr
        THEN StatusResult(<<>>, Wrap("error converting condition", cv.err), g.calls)
        ELSE IF dep.status.available # replicas \/ dep.status.updated # replicas
        THEN StatusResult(<<StatusOf(FALSE, MsgNotAvailable, cv.conds)>>,
                          NoErr, g.calls)
        ELSE StatusResult(<<StatusOf(TRUE, "deployment ready", cv.conds)>>,
                          NoErr, g.calls)

\* MicroController.Status of component c
StatusFor(c, p, st, rs, ps, fault) ==
    CASE c = "postgres" -> PostgresStatus(p, st, rs, ps, fault)
      [] c = "redis" -> RedisStatus(p, st, rs, ps, fault)
      [] c = "clair" -> ClairStatus(p, st, rs, ps, fault)

----------------------------------------------------------------------------
(* The state machine.                                                      *)

\* the overlay names a caller passes: the three named ones, one whose render
\* holds an unmapped kind and one the tree has no directory for
OverlayNames == {NotAppliedOverlay, BaseOverlay, ScaleDownOverlay, "extras", "absent"}

\* Ads a caller passes to the scanner's Apply: what the database advertises,
\* the same without one or two of the needed keys, the needed keys with an
\* empty value among them, and the zero value
FullAds ==
    [isnil |-> FALSE,
     dict |-> [k \in {"dbhost", "dbport", "dbuser", "dbpass", "dbname",
                      "dbrootuser", "dbrootpass"} |->
                 CASE k = "dbhost" -> "clair-database.rmarasch.svc"
                   [] k = "dbport" -> "5432"
                   [] k = "dbuser" -> "user"
                   [] k = "dbpass" -> "uuid-1"
                   [] k = "dbname" -> "database"
                   [] k = "dbrootuser" -> "postgres"
                   [] k = "dbrootpass" -> "uuid-2"]]

Without(a, keys) == [a EXCEPT !.dict = [k \in DOMAIN a.dict \ keys |-> a.dict[k]]]

AdsInputs(c) ==
    IF c = "clair"
    THEN { FullAds, ZeroAds, Without(FullAds, {"dbport"}),
           Without(FullAds, {"dbhost", "dbrootpass"}),
           AdsPut(Without(FullAds, {"dbuser", "dbpass"}), "dbname", "") }
    ELSE { ZeroAds }

Gens(c) == IF c = "postgres" THEN 1..NumUUIDs ELSE {1}

\* the number of objects the base directory renders to, generated secret included
RenderedCount(c) ==
    Len(from[c][PathJoin("kustomize", BaseOverlay)]) + (IF c = "redis" THEN 0 ELSE 1)

ApplyFaults(c) ==
    {NoFault}
    \cup (IF c = "postgres" THEN {FaultAt("Get", 1), FaultAt("Create", 1)} ELSE {})
    \cup {FaultAt("Patch", i) : i \in 1..RenderedCount(c)}
    \cup (IF \E j \in DOMAIN ctl[c].OMutators : ctl[c].OMutators[j].fn = "custom"
          THEN {FaultAt("OMutator", i) : i \in 1..RenderedCount(c)}
          ELSE {})
    \cup (IF \E j \in DOMAIN ctl[c].KMutators : ctl[c].KMutators[j] = "custom"
          THEN {FaultAt("KMutator", 1)}
          ELSE {})

AdvertiseFaults(c) ==
    IF c = "postgres" THEN {NoFault, FaultAt("Get", 1), FaultAt("Create", 1)}
    ELSE {NoFault}

StatusFaults(c) ==
    {NoFault, FaultAt("Get", 1)}
    \cup (IF c = "postgres" THEN {FaultAt("List", 1), FaultAt("List", 2)} ELSE {})

\* how a controller is built: with no option; with the options of main and a
\* caller's object-level mutator appended; with the options of main, a
\* caller's object-level mutator put first and a caller's template-level
\* mutator appended
Builds == {"defaults", "main+custom", "custom+main"}

Build(c, b) ==
    CASE b = "defaults" -> New(c, <<>>)
      [] b = "main" -> New(c, MainOptions)
      [] b = "main+custom" ->
            [New(c, MainOptions) EXCEPT !.OMutators = Append(@, CustomOMutator)]
      [] b = "custom+main" ->
            [New(c, MainOptions) EXCEPT !.OMutators = <<CustomOMutator>> \o @,
                                        !.KMutators = Append(@, "custom")]

\* what a call found when it started: the component's overlay and the objects
\* of the store as they were written (their platform-owned status aside)
Was(c) ==
    [overlay |-> ctl[c].overlay,
     store |-> [k \in DOMAIN store |-> [store[k] EXCEPT !.status = ZeroStatus]]]

NoCall ==
    [op |-> "none", arg |-> "", in |-> ZeroAds, err |-> NoErr, ads |-> ZeroAds,
     status |-> <<>>, calls |-> <<>>, objs |-> <<>>, cred |-> <<>>,
     was |-> [overlay |-> NotAppliedOverlay, store |-> [k \in {} |-> <<>>]]]

\* the driver's locals: where it stands, the Ads it holds (ad), the Ready of
\* the status it holds, and the calls it made so far (a poll that finds the
\* component not ready again is not recorded twice)
DriverAt(pc, ad, ready, log) == [pc |-> pc, ad |-> ad, ready |-> ready, log |-> log]

\* no driver runs: a caller makes the calls
NoDriver == DriverAt("none", ZeroAds, FALSE, <<>>)

\* An Ads a program holds: the value (a), the last method called on it with
\* its arguments (idx, val, indexes) and what it returned (got, err), the
\* value before that call (was), and for each index the value it was last
\* put to and not deleted since, if any (kept)
NoLab ==
    [a |-> ZeroAds, op |-> "none", idx |-> "", val |-> "", indexes |-> <<>>,
     got |-> "", err |-> NoErr, was |-> ZeroAds, kept |-> [k \in {} |-> <<>>]]

\* no concurrent Applies are under way
NoProcs == [r \in {} |-> <<>>]

NoHist ==
    [applied |-> FALSE, lastOk |-> NotAppliedOverlay, creates |-> 0,
     generated |-> <<>>]

Created(calls) ==
    \E i \in DOMAIN calls : calls[i].op = "Create" /\ calls[i].outcome = "ok"

\* the history after a call that issued calls and read the credentials cred
HistAfter(h, op, overlay, err, calls, cred) ==
    [applied |-> h.applied \/ (op = "Apply" /\ err = NoErr),
     lastOk |-> IF op = "Apply" /\ err = NoErr THEN overlay ELSE h.lastOk,
     creates |-> IF Created(calls) /\ h.creates < 2 THEN h.creates + 1 ELSE h.creates,
     generated |-> IF Created(calls) /\ h.generated = <<>> THEN cred ELSE h.generated]

InitWith(builds) ==
    /\ mc \in Comps
    /\ \E shape \in TreeShapes : from = [c \in Comps |-> TreeOf(c, shape)]
    /\ \E b \in builds :
          ctl = [c \in Comps |-> IF c = mc THEN Build(c, b) ELSE New(c, <<>>)]
    /\ store = [k \in {} |-> <<>>]
    /\ rsets = {}
    /\ pods = {}
    /\ ret = NoCall
    /\ hist = NoHist
    /\ drv = NoDriver
    /\ lab = NoLab
    /\ procs = NoProcs

Init == InitWith(Builds)

\* The inputs of an Apply on component c: overlay, Ads, fault and uuid draw.
\* A fault the call cannot reach is the same input as no fault, so a fault in
\* the object loop goes with the overlays that have a directory to render,
\* and Ads short of a needed key go with no fault.  A uuid draw the call does
\* not make is the same input as the first draw: the draws differ only when
\* the credential record is absent and its read and its create succeed.
ApplyInputs(c) ==
    { in \in [overlay : OverlayNames, ads : AdsInputs(c),
              fault : ApplyFaults(c), gen : Gens(c)] :
        /\ in.fault.op \in {"Patch", "OMutator"}
              => in.overlay \in {NotAppliedOverlay, BaseOverlay, ScaleDownOverlay}
        /\ AdsContains(in.ads, NeededAds) # NoErr /\ c = "clair"
              => in.fault = NoFault
        /\ in.gen # 1
              => /\ Key("Secret", ctl[c].namespace,
                        ctl[c].namePrefix \o "-pgsql-access-data") \notin DOMAIN store
                 /\ in.fault.op \notin {"Get", "Create"} }

\* mc.Apply(ctx, overlay, ads) on component c, its inputs drawn from ins
ApplyWith(c, ins) ==
    \E in \in ins :
        \E r \in {KustCtrlApply(c, ctl[c], from[c], store, in.overlay, in.ads,
                               in.fault, in.gen)} :
            /\ store' = r.store
            /\ ctl' = [ctl EXCEPT ![c].overlay = r.overlay]
            /\ ret' = [op |-> "Apply", arg |-> in.overlay, in |-> in.ads,
                       err |-> r.err, ads |-> ZeroAds, status |-> <<>>,
                       calls |-> r.calls, objs |-> r.objs, cred |-> r.cred,
                       was |-> Was(c)]
            /\ hist' = HistAfter(hist, "Apply", in.overlay, r.err, r.calls, r.cred)
            /\ UNCHANGED <<mc, from, rsets, pods, drv, lab, procs>>

Apply(c) == ApplyWith(c, ApplyInputs(c))

\* mc.Advertise(ctx)
Advertise(c) ==
    \E fault \in AdvertiseFaults(c), gen \in Gens(c) :
        \E r \in {AdvertiseOf(c, ctl[c], store, fault, gen)} :
            /\ store' = r.store
            /\ ret' = [op |-> "Advertise", arg |-> "", in |-> ZeroAds, err |-> r.err,
                       ads |-> r.ads, status |-> <<>>, calls |-> r.calls,
                       objs |-> <<>>, cred |-> r.cred, was |-> Was(c)]
            /\ hist' = HistAfter(hist, "Advertise", "", r.err, r.calls, r.cred)
            /\ UNCHANGED <<mc, from, ctl, rsets, pods, drv, lab, procs>>

\* mc.Status(ctx)
Status(c) ==
    \E fault \in StatusFaults(c) :
        \E r \in {StatusFor(c, ctl[c], store, rsets, pods, fault)} :
            /\ ret' = [op |-> "Status", arg |-> "", in |-> ZeroAds, err |-> r.err,
                       ads |-> ZeroAds, status |-> r.status, calls |-> r.calls,
                       objs |-> <<>>, cred |-> <<>>, was |-> Was(c)]
            /\ UNCHANGED <<mc, from, ctl, store, rsets, pods, hist, drv, lab, procs>>

Next == Apply(mc) \/ Advertise(mc) \/ Status(mc)

\* One component driven through any sequence of Apply, Advertise and Status,
\* with remote failures; nothing else writes to the store.
Spec == Init /\ [][Next]_vars

----------------------------------------------------------------------------
(* The platform: the Deployment controller reporting a workload's status   *)
(* and the ReplicaSets and Pods it keeps around the workload.              *)

\* the key of component c's Deployment as its controller looks it up
DeploymentKey(c) ==
    Key("Deployment", ctl[c].namespace, ctl[c].namePrefix \o "-" \o WorkloadName(c))

\* an appsv1.DeploymentCondition the platform reports
AvailableCondition ==
    [type |-> "Available", status |-> "True", lastUpdateTime |-> "t1",
     lastTransitionTime |-> "t0", reason |-> "MinimumReplicasAvailable",
     message |-> "Deployment has minimum availability."]

CondLists == { <<>>, <<AvailableCondition>> }

OwnerRef(kind, uid) == [apiVersion |-> "apps/v1", name |-> "", kind |-> kind, uid |-> uid]

\* the ReplicaSets the platform may hold in the component's namespace: one the
\* component's Deployment owns and one another Deployment owns
OwnReplicaSet(c) ==
    [uid |-> "uid-rs-own", namespace |-> ctl[c].namespace,
     orefs |-> <<OwnerRef("Deployment", UIDOf(DeploymentKey(c)))>>]
OtherReplicaSet(c) ==
    [uid |-> "uid-rs-other", namespace |-> ctl[c].namespace,
     orefs |-> <<OwnerRef("Deployment", "uid-Deployment-other")>>]

\* a Pod of ReplicaSet rs
PodOf(rs) ==
    [uid |-> "uid-pod-" \o rs.uid, namespace |-> rs.namespace,
     orefs |-> <<OwnerRef("ReplicaSet", rs.uid)>>]

\* What the platform may hold around the workload: nothing; both ReplicaSets
\* and a Pod of the component's own; both and a Pod of the other one; the
\* component's ReplicaSet and no Pod.
PodScenes(c) ==
    { [rsets |-> {}, pods |-> {}],
      [rsets |-> {OwnReplicaSet(c), OtherReplicaSet(c)},
       pods |-> {PodOf(OwnReplicaSet(c))}],
      [rsets |-> {OwnReplicaSet(c), OtherReplicaSet(c)},
       pods |-> {PodOf(OtherReplicaSet(c))}],
      [rsets |-> {OwnReplicaSet(c)}, pods |-> {}] }

\* the Deployment controller writes the workload's status; what the last call
\* returned is out of date from then on
PlatformReports(c) ==
    /\ DeploymentKey(c) \in DOMAIN store
    /\ \E a \in 0..MaxReplicas, u \in 0..MaxReplicas, cs \in CondLists :
          store' = [store EXCEPT ![DeploymentKey(c)].status =
                        [available |-> a, updated |-> u, conditions |-> cs]]
    /\ ret' = NoCall
    /\ UNCHANGED <<mc, from, ctl, rsets, pods, hist, drv, lab, procs>>

\* ReplicaSets and Pods come and go
PlatformPods(c) ==
    /\ DeploymentKey(c) \in DOMAIN store
    /\ \E scene \in PodScenes(c) :
          /\ rsets' = scene.rsets
          /\ pods' = scene.pods
    /\ ret' = NoCall
    /\ UNCHANGED <<mc, from, ctl, store, hist, drv, lab, procs>>

\* the Applies of a run that is about readiness: the overlays with a directory,
\* complete Ads, no remote failure
ReadinessInputs(c) ==
    { in \in ApplyInputs(c) :
        /\ in.overlay \in {BaseOverlay, ScaleDownOverlay}
        /\ in.fault = NoFault
        /\ in.gen = 1
        /\ AdsContains(in.ads, NeededAds) = NoErr \/ c # "clair" }

ApplyReady(c) == ApplyWith(c, ReadinessInputs(c))

InitReadiness == InitWith({"main"})

NextReadiness ==
    ApplyReady(mc) \/ Status(mc) \/ PlatformReports(mc) \/ PlatformPods(mc)

\* One component, built as main builds it, applied and polled for its Status
\* while the platform changes the workload's status, ReplicaSets and Pods.
SpecReadiness == InitReadiness /\ [][NextReadiness]_vars

----------------------------------------------------------------------------
(* The database scaled down, among ReplicaSets and Pods of every sort.     *)

\* a ReplicaSet or a Pod as the lists return it; a Pod has a phase
Owned(uid, namespace, orefs, phase) ==
    [uid |-> uid, namespace |-> namespace, orefs |-> orefs, phase |-> phase]

\* the ReplicaSets there may be: the Deployment's own, another Deployment's,
\* one whose owner has the Deployment's UID and another kind, and one the
\* Deployment owns in another namespace
ReplicaSetsAround(c) ==
    { Owned("uid-rs-own", ctl[c].namespace,
            <<OwnerRef("Deployment", UIDOf(DeploymentKey(c)))>>, ""),
      Owned("uid-rs-other", ctl[c].namespace,
            <<OwnerRef("Deployment", "uid-Deployment-other")>>, ""),
      Owned("uid-rs-kind", ctl[c].namespace,
            <<OwnerRef("StatefulSet", UIDOf(DeploymentKey(c)))>>, ""),
      Owned("uid-rs-elsewhere", "default",
            <<OwnerRef("Deployment", UIDOf(DeploymentKey(c)))>>, "") }

\* the Pods there may be: a finished Pod of the Deployment's own ReplicaSet,
\* a Pod of each other ReplicaSet, a Pod whose owner has the own ReplicaSet's
\* UID and another kind, and a Pod of the own ReplicaSet in another namespace
PodsAround(c) ==
    { Owned("uid-pod-own", ctl[c].namespace,
            <<OwnerRef("ReplicaSet", "uid-rs-own")>>, "Succeeded"),
      Owned("uid-pod-other", ctl[c].namespace,
            <<OwnerRef("ReplicaSet", "uid-rs-other")>>, "Running"),
      Owned("uid-pod-of-kind", ctl[c].namespace,
            <<OwnerRef("ReplicaSet", "uid-rs-kind")>>, "Running"),
      Owned("uid-pod-of-elsewhere", ctl[c].namespace,
            <<OwnerRef("ReplicaSet", "uid-rs-elsewhere")>>, "Running"),
      Owned("uid-pod-kind", ctl[c].namespace,
            <<OwnerRef("Job", "uid-rs-own")>>, "Running"),
      Owned("uid-pod-elsewhere", "default",
            <<OwnerRef("ReplicaSet", "uid-rs-own")>>, "Running") }

\* the database, built as main builds it, after its scale-down overlay was
\* applied to an empty store
ScaledDown ==
    KustCtrlApply("postgres", Build("postgres", "main"), TreeOf("postgres", "layout"),
                  [k \in {} |-> <<>>], ScaleDownOverlay, ZeroAds, NoFault, 1)

InitDangling ==
    /\ mc = "postgres"
    /\ from = [c \in Comps |-> TreeOf(c, "layout")]
    /\ ctl = [c \in Comps |->
                IF c = "postgres"
                THEN [Build(c, "main") EXCEPT !.overlay = ScaledDown.overlay]
                ELSE New(c, <<>>)]
    /\ store = ScaledDown.store
    /\ rsets \in SUBSET ReplicaSetsAround("postgres")
    /\ pods \in SUBSET PodsAround("postgres")
    /\ ret = NoCall
    /\ hist = HistAfter(NoHist, "Apply", ScaleDownOverlay, ScaledDown.err,
                        ScaledDown.calls, ScaledDown.cred)
    /\ drv = NoDriver
    /\ lab = NoLab
    /\ procs = NoProcs

NextDangling == Status(mc)

\* Status of the scaled-down database, whatever ReplicaSets and Pods exist
SpecDangling == InitDangling /\ [][NextDangling]_vars

----------------------------------------------------------------------------
(* cmd/freighter/main.go: the driver.                                      *)

\* the components main deploys, in order
DriverOrder == <<"postgres", "clair">>

LastInOrder(c) == c = DriverOrder[Len(DriverOrder)]

\* the component main deploys after c
NextInOrder(c) ==
    IF LastInOrder(c) THEN c
    ELSE DriverOrder[1 + CHOOSE i \in DOMAIN DriverOrder : DriverOrder[i] = c]

\* an entry of the driver's record: the call made on component c, whether it
\* returned no error, the Ready it returned (Status), the Ads it was given
\* (Apply) and the Ads it returned (Advertise)
Called(c, op, err, ready, in, out) ==
    [comp |-> c, op |-> op, ok |-> err = NoErr, ready |-> ready, in |-> in,
     out |-> out]

\* the record with entry e added; a poll that finds the component not ready
\* right after one that did is the same entry
Logged(log, e) ==
    IF log # <<>> /\ log[Len(log)] = e /\ e.op = "Status" /\ e.ok /\ ~e.ready
    THEN log
    ELSE Append(log, e)

\* a driver that stops polling whatever Status returned
PcAfterNoWait(op, err, ready, last) ==
    IF err # NoErr THEN "fatal"
    ELSE CASE op = "createCM" -> "Apply"
           [] op = "Apply" -> "Status"
           [] op = "Status" -> "Advertise"
           [] op = "Advertise" -> IF last THEN "exit" ELSE "Apply"

\* a driver that polls again when Status fails
PcAfterRetry(op, err, ready, last) ==
    IF op = "Status" /\ (err # NoErr \/ ~ready) THEN "Status"
    ELSE IF err # NoErr THEN "fatal"
    ELSE CASE op = "createCM" -> "Apply"
           [] op = "Apply" -> "Status"
           [] op = "Status" -> "Advertise"
           [] op = "Advertise" -> IF last THEN "exit" ELSE "Apply"

\* main and apply: where the driver stands after a call of op returned err
\* (and, for Status, ready): log.Fatal on any error, the poll loop while not
\* ready, else the next statement
PcAfter(op, err, ready, last) ==
    IF err # NoErr THEN "fatal"
    ELSE CASE op = "createCM" -> "Apply"
           [] op = "Apply" -> "Status"
           [] op = "Status" -> IF ready THEN "Advertise" ELSE "Status"
           [] op = "Advertise" -> IF last THEN "exit" ELSE "Apply"

\* a main that drops what apply returned
AdKept(ad, advertised) == ad

\* main: ad = apply(ctx, pgsql, mctrl.BaseOverlay, ad)
AdAfter(ad, advertised) == advertised

\* createCM: the ConfigMap the owner reference points at
CMKey == Key("ConfigMap", "rmarasch", "testing")

TestingCM ==
    [kind |-> "ConfigMap", namespace |-> "rmarasch", name |-> "testing",
     orefs |-> <<>>, data |-> EmptyDict, replicas |-> <<>>]

CreateCMFaults == {NoFault, FaultAt("Get", 1), FaultAt("Create", 1)}

\* createCM(ctx, cli): read the ConfigMap, create it when not found
DriverCreateCM ==
    /\ drv.pc = "createCM"
    /\ \E fault \in CreateCMFaults :
          \E err \in {IF fault = FaultAt("Get", 1)
                          \/ (fault = FaultAt("Create", 1) /\ CMKey \notin DOMAIN store)
                      THEN RemoteErr ELSE NoErr} :
              /\ store' = IF err = NoErr /\ CMKey \notin DOMAIN store
                          THEN Upsert(store, TestingCM) ELSE store
              /\ drv' = DriverAt(PcAfter("createCM", err, FALSE, FALSE), drv.ad,
                                 FALSE, drv.log)
    /\ ret' = NoCall
    /\ UNCHANGED <<mc, from, ctl, rsets, pods, hist, lab, procs>>

\* apply: mc.Apply(ctx, overlay, ad), overlay being mctrl.BaseOverlay
DriverApply ==
    /\ drv.pc = "Apply"
    /\ \E fault \in ApplyFaults(mc), gen \in Gens(mc) :
          \E r \in {KustCtrlApply(mc, ctl[mc], from[mc], store, BaseOverlay, drv.ad,
                                 fault, gen)} :
              /\ store' = r.store
              /\ ctl' = [ctl EXCEPT ![mc].overlay = r.overlay]
              /\ ret' = [op |-> "Apply", arg |-> BaseOverlay, in |-> drv.ad,
                         err |-> r.err, ads |-> ZeroAds, status |-> <<>>,
                         calls |-> r.calls, objs |-> r.objs, cred |-> r.cred,
                         was |-> Was(mc)]
              /\ drv' = DriverAt(PcAfter("Apply", r.err, FALSE, FALSE), drv.ad, FALSE,
                                 Logged(drv.log, Called(mc, "Apply", r.err, FALSE,
                                                        drv.ad, ZeroAds)))
    /\ UNCHANGED <<mc, from, rsets, pods, hist, lab, procs>>

\* apply: status, err := mc.Status(ctx), the first call and each poll
DriverStatus ==
    /\ drv.pc = "Status"
    /\ \E fault \in StatusFaults(mc) :
          \E r \in {StatusFor(mc, ctl[mc], store, rsets, pods, fault)} :
              \E ready \in {r.status # <<>> /\ r.status[1].Ready} :
                  /\ ret' = [op |-> "Status", arg |-> "", in |-> ZeroAds,
                             err |-> r.err, ads |-> ZeroAds, status |-> r.status,
                             calls |-> r.calls, objs |-> <<>>, cred |-> <<>>,
                             was |-> Was(mc)]
                  /\ drv' = DriverAt(PcAfter("Status", r.err, ready, FALSE), drv.ad,
                                     ready,
                                     Logged(drv.log, Called(mc, "Status", r.err, ready,
                                                            ZeroAds, ZeroAds)))
    /\ UNCHANGED <<mc, from, ctl, store, rsets, pods, hist, lab, procs>>

\* apply: ad, err = mc.Advertise(ctx) and the return to main, which keeps the
\* result of the first apply and goes on with the next component
DriverAdvertise ==
    /\ drv.pc = "Advertise"
    /\ \E fault \in AdvertiseFaults(mc), gen \in Gens(mc) :
          \E r \in {AdvertiseOf(mc, ctl[mc], store, fault, gen)} :
              /\ store' = r.store
              /\ ret' = [op |-> "Advertise", arg |-> "", in |-> ZeroAds,
                         err |-> r.err, ads |-> r.ads, status |-> <<>>,
                         calls |-> r.calls, objs |-> <<>>, cred |-> r.cred,
                         was |-> Was(mc)]
              /\ drv' = DriverAt(PcAfter("Advertise", r.err, FALSE, LastInOrder(mc)),
                                 IF r.err = NoErr /\ ~LastInOrder(mc)
                                 THEN AdAfter(drv.ad, r.ads) ELSE drv.ad,
                                 FALSE,
                                 Logged(drv.log, Called(mc, "Advertise", r.err, FALSE,
                                                        ZeroAds, r.ads)))
              /\ mc' = IF r.err = NoErr THEN NextInOrder(mc) ELSE mc
    /\ UNCHANGED <<from, ctl, rsets, pods, hist, lab, procs>>

\* main starts: the controllers as main builds them, nothing in the store
InitDriver ==
    /\ mc = DriverOrder[1]
    /\ \E shape \in TreeShapes : from = [c \in Comps |-> TreeOf(c, shape)]
    /\ ctl = [c \in Comps |-> Build(c, "main")]
    /\ store = [k \in {} |-> <<>>]
    /\ rsets = {}
    /\ pods = {}
    /\ ret = NoCall
    /\ hist = NoHist
    /\ drv = DriverAt("createCM", ZeroAds, FALSE, <<>>)
    /\ lab = NoLab
    /\ procs = NoProcs

NextDriver ==
    \/ DriverCreateCM
    \/ DriverApply
    \/ DriverStatus
    \/ DriverAdvertise
    \/ PlatformReports(mc)

\* main, with remote failures, while the platform reports on the workload of
\* the component being deployed
SpecDriver == InitDriver /\ [][NextDriver]_vars

\* the same with the driver's process running on: a poll or an Advertise that
\* can be made is made
SpecDriverFair ==
    SpecDriver /\ WF_vars(DriverStatus) /\ WF_vars(DriverAdvertise)

----------------------------------------------------------------------------
(* A program working on one Ads value with Put, Delete, Get and Contains.  *)

\* longest list of indexes given to Contains
MaxIndexes == 2

\* the indexes and the values the program uses
AdsKeys == {"dbhost", "dbport"}
AdsValues == {"", "5432", "6379"}

IndexLists == UNION { [1..n -> AdsKeys] : n \in 0..MaxIndexes }

\* kept after idx was put to val (<<val>>) or deleted (<<>>)
KeptAfter(kept, idx, now) ==
    [k \in DOMAIN kept \cup {idx} |-> IF k = idx THEN now ELSE kept[k]]

OnlyLab == UNCHANGED <<mc, from, ctl, store, rsets, pods, ret, hist, drv, procs>>

\* a.Put(idx, val)
AdsPutCall ==
    /\ \E idx \in AdsKeys, val \in AdsValues :
          lab' = [a |-> AdsPut(lab.a, idx, val), op |-> "Put", idx |-> idx,
                  val |-> val, indexes |-> <<>>, got |-> "", err |-> NoErr,
                  was |-> lab.a, kept |-> KeptAfter(lab.kept, idx, <<val>>)]
    /\ OnlyLab

\* a.Delete(idx)
AdsDeleteCall ==
    /\ \E idx \in AdsKeys :
          lab' = [a |-> AdsDelete(lab.a, idx), op |-> "Delete", idx |-> idx,
                  val |-> "", indexes |-> <<>>, got |-> "", err |-> NoErr,
                  was |-> lab.a, kept |-> KeptAfter(lab.kept, idx, <<>>)]
    /\ OnlyLab

\* a.Get(idx)
AdsGetCall ==
    /\ \E idx \in AdsKeys :
          lab' = [a |-> lab.a, op |-> "Get", idx |-> idx, val |-> "",
                  indexes |-> <<>>, got |-> AdsGet(lab.a, idx), err |-> NoErr,
                  was |-> lab.a, kept |-> lab.kept]
    /\ OnlyLab

\* a.Contains(indexes...)
AdsContainsCall ==
    /\ \E indexes \in IndexLists :
          lab' = [a |-> lab.a, op |-> "Contains", idx |-> "", val |-> "",
                  indexes |-> indexes, got |-> "",
                  err |-> AdsContains(lab.a, indexes),
                  was |-> lab.a, kept |-> lab.kept]
    /\ OnlyLab

\* the program starts with the zero value of Ads
InitAds ==
    /\ mc = "redis"
    /\ from = [c \in Comps |-> TreeOf(c, "layout")]
    /\ ctl = [c \in Comps |-> New(c, <<>>)]
    /\ store = [k \in {} |-> <<>>]
    /\ rsets = {}
    /\ pods = {}
    /\ ret = NoCall
    /\ hist = NoHist
    /\ drv = NoDriver
    /\ lab = NoLab
    /\ procs = NoProcs

NextAds == AdsPutCall \/ AdsDeleteCall \/ AdsGetCall \/ AdsContainsCall

\* any sequence of calls on one Ads value
SpecAds == InitAds /\ [][NextAds]_vars

----------------------------------------------------------------------------
(* Two Applies of the same database identity running concurrently, each on  *)
(* a controller of its own, against one store.  The store serves one        *)
(* request at a time; a create of a name that exists is rejected.           *)

\* Apply from the point where ensurePsqlSecretData returned e to the Apply
\* that called it: the rest of Postgres.mutateKustomization, of parse and of
\* Apply
ApplyAfterEnsure(p, tree, overlay, fault, e) ==
    ApplyParsed(p, overlay, fault,
        ParseMutated(tree, PathJoin("kustomize", overlay),
            KMutatorDone("postgres", p, p.KMutators, BaseKustomization, ZeroAds,
                         fault, 1,
                         PostgresKustomization(p, BaseKustomization, e))))

\* a call that cannot read the record while the other call is between its
\* read and its create
RaceGetLocked(r) ==
    /\ procs[r].pc = "get"
    /\ \A o \in DOMAIN procs \ {r} : procs[o].pc # "create"
    /\ IF CredKeyOf(ctl["postgres"]) \in DOMAIN store
       THEN procs' = [procs EXCEPT
                ![r].pc = "rest",
                ![r].cred = <<DataGet(store[CredKeyOf(ctl["postgres"])].data, "pass"),
                              DataGet(store[CredKeyOf(ctl["postgres"])].data, "rootpass")>>,
                ![r].calls = <<Ev("Get", "", CredKeyOf(ctl["postgres"]), 0, "ok")>>]
       ELSE \E g \in 1..NumUUIDs :
                /\ \A o \in DOMAIN procs : procs[o].gen # g
                /\ procs' = [procs EXCEPT
                      ![r].pc = "create",
                      ![r].gen = g,
                      ![r].cred = <<NewUUIDs(g).pass, NewUUIDs(g).rootpass>>,
                      ![r].calls =
                          <<Ev("Get", "", CredKeyOf(ctl["postgres"]), 0, "notfound")>>]
    /\ UNCHANGED <<mc, from, ctl, store, rsets, pods, ret, hist, drv, lab>>

\* ensurePsqlSecretData of call r, its client.Get: the record's passwords when
\* it is there, else a pair of uuids no other call drew
RaceGet(r) ==
    /\ procs[r].pc = "get"
    /\ IF CredKeyOf(ctl["postgres"]) \in DOMAIN store
       THEN procs' = [procs EXCEPT
                ![r].pc = "rest",
                ![r].cred = <<DataGet(store[CredKeyOf(ctl["postgres"])].data, "pass"),
                              DataGet(store[CredKeyOf(ctl["postgres"])].data, "rootpass")>>,
                ![r].calls = <<Ev("Get", "", CredKeyOf(ctl["postgres"]), 0, "ok")>>]
       ELSE \E g \in 1..NumUUIDs :
                /\ \A o \in DOMAIN procs : procs[o].gen # g
                /\ procs' = [procs EXCEPT
                      ![r].pc = "create",
                      ![r].gen = g,
                      ![r].cred = <<NewUUIDs(g).pass, NewUUIDs(g).rootpass>>,
                      ![r].calls =
                          <<Ev("Get", "", CredKeyOf(ctl["postgres"]), 0, "notfound")>>]
    /\ UNCHANGED <<mc, from, ctl, store, rsets, pods, ret, hist, drv, lab>>

\* a create that replaces the record when it exists
RaceCreateReplaces(r) ==
    /\ procs[r].pc = "create"
    /\ store' = Upsert(store, AccessDataSecret(ctl["postgres"],
                     [pass |-> procs[r].cred[1], rootpass |-> procs[r].cred[2]]))
    /\ procs' = [procs EXCEPT
          ![r].pc = "rest",
          ![r].calls = @ \o <<Ev("Create", "", CredKeyOf(ctl["postgres"]), 0, "ok")>>]
    /\ UNCHANGED <<mc, from, ctl, rsets, pods, ret, hist, drv, lab>>

\* ensurePsqlSecretData of call r, its client.Create with the uuids it drew:
\* the record is stored, or the create is rejected and the Apply returns
RaceCreate(r) ==
    /\ procs[r].pc = "create"
    /\ IF CredKeyOf(ctl["postgres"]) \in DOMAIN store
       THEN \E a \in {ApplyAfterEnsure(
                          [ctl["postgres"] EXCEPT !.overlay = procs[r].cur],
                          from["postgres"], procs[r].overlay, NoFault,
                          [store |-> store, pass |-> "", rootpass |-> "",
                           err |-> Wrap("error creating pgsql secret data",
                                        <<"already exists">>),
                           calls |-> procs[r].calls
                              \o <<Ev("Create", "", CredKeyOf(ctl["postgres"]), 0,
                                      "error")>>])} :
                /\ store' = a.store
                /\ procs' = [procs EXCEPT
                      ![r].pc = "done", ![r].err = a.err, ![r].calls = a.calls,
                      ![r].objs = a.objs, ![r].cur = a.overlay]
       ELSE /\ store' = Upsert(store, AccessDataSecret(ctl["postgres"],
                            [pass |-> procs[r].cred[1], rootpass |-> procs[r].cred[2]]))
            /\ procs' = [procs EXCEPT
                  ![r].pc = "rest",
                  ![r].calls = @ \o <<Ev("Create", "", CredKeyOf(ctl["postgres"]),
                                         0, "ok")>>]
    /\ UNCHANGED <<mc, from, ctl, rsets, pods, ret, hist, drv, lab>>

\* the rest of the Apply of call r, with the passwords ensurePsqlSecretData
\* returned to it
RaceRest(r) ==
    /\ procs[r].pc = "rest"
    /\ \E fault \in {NoFault} \cup {FaultAt("Patch", i) : i \in 1..RenderedCount("postgres")} :
          \E a \in {ApplyAfterEnsure(
                        [ctl["postgres"] EXCEPT !.overlay = procs[r].cur],
                        from["postgres"], procs[r].overlay, fault,
                        [store |-> store, pass |-> procs[r].cred[1],
                         rootpass |-> procs[r].cred[2], err |-> NoErr,
                         calls |-> procs[r].calls])} :
              /\ store' = a.store
              /\ procs' = [procs EXCEPT
                    ![r].pc = "done", ![r].err = a.err, ![r].calls = a.calls,
                    ![r].objs = a.objs, ![r].cur = a.overlay]
    /\ UNCHANGED <<mc, from, ctl, rsets, pods, ret, hist, drv, lab>>

\* two Applies start on controllers built as main builds the database's, the
\* store empty: a first-time Apply for both
InitRace ==
    /\ mc = "postgres"
    /\ \E shape \in TreeShapes : from = [c \in Comps |-> TreeOf(c, shape)]
    /\ ctl = [c \in Comps |-> Build(c, "main")]
    /\ store = [k \in {} |-> <<>>]
    /\ rsets = {}
    /\ pods = {}
    /\ ret = NoCall
    /\ hist = NoHist
    /\ drv = NoDriver
    /\ lab = NoLab
    /\ procs \in [{"first", "second"} ->
                    [pc : {"get"}, overlay : {BaseOverlay, ScaleDownOverlay},
                     cur : {NotAppliedOverlay}, gen : {0}, cred : {<<>>},
                     err : {NoErr}, calls : {<<>>}, objs : {<<>>}]]

NextRace ==
    \/ \E r \in DOMAIN procs : RaceGet(r)
    \/ \E r \in DOMAIN procs : RaceCreate(r)
    \/ \E r \in DOMAIN procs : RaceRest(r)

\* every interleaving of the store requests of the two Applies
SpecRace == InitRace /\ [][NextRace]_vars

----------------------------------------------------------------------------
(* Properties.                                                             *)

\* the key of the database's credential record
CredKey ==
    Key("Secret", ctl["postgres"].namespace,
        ctl["postgres"].namePrefix \o "-pgsql-access-data")

\* the last call issued operation e
Issued(e) == \E i \in DOMAIN ret.calls : ret.calls[i] = e

\* C1: the current overlay is the overlay name of the most recent Apply that
\* returned success, "" while none has; an Apply that returns an error leaves
\* the current overlay as it found it.
C1_CurrentOverlay ==
    /\ ctl[mc].overlay = hist.lastOk
    /\ ~hist.applied => ctl[mc].overlay = ""
    /\ ret.op = "Apply" /\ ret.err = NoErr => ctl[mc].overlay = ret.arg
    /\ ret.op = "Apply" /\ ret.err # NoErr => ctl[mc].overlay = ret.was.overlay

\* an Apply of another overlay failed after one had succeeded
C1_FailedAfterSuccess ==
    /\ ret.op = "Apply" /\ ret.err # NoErr
    /\ hist.applied /\ hist.lastOk # ""
    /\ ret.arg \notin {"", hist.lastOk}

\* C2: over any sequence of Apply and Advertise on the database component the
\* credential record is created at most once; a create is issued only right
\* after a read that found the record absent; when the read finds the record
\* the stored pass and rootpass are what the call returns, and the record is
\* left as it was.
C2_CredentialCreatedOnce ==
    mc = "postgres" =>
        /\ hist.creates <= 1
        /\ \A i \in DOMAIN ret.calls :
              ret.calls[i].op = "Create" =>
                  /\ i > 1
                  /\ ret.calls[i - 1] = Ev("Get", "", CredKey, 0, "notfound")
                  /\ ret.calls[i].key = CredKey
                  /\ CredKey \notin DOMAIN ret.was.store
        /\ Issued(Ev("Get", "", CredKey, 0, "ok")) =>
              /\ CredKey \in DOMAIN ret.was.store
              /\ ret.cred = << ret.was.store[CredKey].data["pass"],
                               ret.was.store[CredKey].data["rootpass"] >>
              /\ store[CredKey] = ret.was.store[CredKey]
              /\ \A i \in DOMAIN ret.calls : ret.calls[i].op # "Create"

\* the record was created by an earlier call and this one read it back
C2_ReadBack ==
    /\ mc = "postgres" /\ hist.creates = 1
    /\ ret.op \in {"Apply", "Advertise"}
    /\ Issued(Ev("Get", "", CredKey, 0, "ok"))
    /\ ret.cred # <<>>

\* the generated database secret among the objects the last Apply rendered
ConfigSecrets ==
    { i \in DOMAIN ret.objs :
        ret.objs[i].kind = "Secret"
        /\ ret.objs[i].name = ctl["postgres"].namePrefix \o "-postgres-config-secret" }

\* the passwords the first create stored are what the last call used
SameAsGenerated(pass, rootpass) ==
    pass = hist.generated[1] /\ rootpass = hist.generated[2]

\* C3 (as amended): the pass and rootpass generated on the first Apply are the
\* values embedded in the generated database secret of that Apply and of
\* every later Apply, whatever the overlay, and every later Advertise that
\* succeeds while an overlay other than scale-down is applied (the current
\* overlay is neither "" nor "scale-down") returns them as dbpass and
\* dbrootpass.
C3_CredentialsStable ==
    mc = "postgres" /\ hist.generated # <<>> =>
        /\ ret.op = "Apply" /\ ret.objs # <<>> =>
              /\ ConfigSecrets # {}
              /\ \A i \in ConfigSecrets :
                    SameAsGenerated(ret.objs[i].data["database-password"],
                                    ret.objs[i].data["database-root-password"])
        /\ ret.op = "Advertise" /\ ret.err = NoErr
              /\ ret.was.overlay \notin {NotAppliedOverlay, ScaleDownOverlay} =>
              SameAsGenerated(AdsGet(ret.ads, "dbpass"), AdsGet(ret.ads, "dbrootpass"))

\* an Advertise under the base overlay read back what an earlier Apply generated
C3_AdvertisedLater ==
    /\ mc = "postgres" /\ hist.generated # <<>>
    /\ ret.op = "Advertise" /\ ret.err = NoErr
    /\ ret.was.overlay = BaseOverlay
    /\ "dbpass" \in DOMAIN ret.ads.dict

\* C3 as stated: every later Advertise under a current overlay that is not
\* "scale-down" returns the generated passwords.
C3_AsStated ==
    mc = "postgres" /\ hist.generated # <<>> =>
        (ret.op = "Advertise" /\ ret.err = NoErr
            /\ ret.was.overlay # ScaleDownOverlay =>
            SameAsGenerated(AdsGet(ret.ads, "dbpass"), AdsGet(ret.ads, "dbrootpass")))

\* C4: Status called before any Apply has succeeded fails with the "no overlay
\* applied" error and returns no status, whatever the component.
C4_StatusBeforeApply ==
    ret.op = "Status" /\ ~hist.applied =>
        /\ ret.err = <<"no overlay applied to the controller">>
        /\ ret.status = <<>>

\* Status was called after an Apply that failed once it had written objects
C4_StatusAfterFailedApply ==
    ret.op = "Status" /\ ~hist.applied /\ DOMAIN store # {}

\* C5 (as amended): Advertise called before any Apply has succeeded returns no
\* error; the cache and the database return an Ads with no keys.
C5_AdvertiseBeforeApply ==
    ret.op = "Advertise" /\ ~hist.applied =>
        /\ ret.err = NoErr
        /\ mc \in {"redis", "postgres"} => DOMAIN ret.ads.dict = {}

\* the database advertised after an Apply that failed once it had created the
\* credential record
C5_AdvertiseAfterFailedApply ==
    /\ ret.op = "Advertise" /\ ~hist.applied
    /\ mc = "postgres" /\ CredKey \in DOMAIN store

\* C5 as stated: Advertise called before any Apply has succeeded fails with the
\* "no overlay applied" error.
C5_AsStated ==
    ret.op = "Advertise" /\ ~hist.applied =>
        ret.err = <<"no overlay applied to the controller">>

\* C6: Advertise on a component whose current overlay is "scale-down" or ""
\* returns an Ads with no keys, whatever the component.
C6_AdvertiseNothing ==
    ret.op = "Advertise" /\ ret.was.overlay \in {ScaleDownOverlay, NotAppliedOverlay} =>
        /\ ret.err = NoErr
        /\ DOMAIN ret.ads.dict = {}

\* the scanner advertised its address with no overlay applied
C6_ScannerAdvertisesUnapplied ==
    /\ mc = "clair" /\ ret.op = "Advertise"
    /\ ret.was.overlay = NotAppliedOverlay
    /\ "clair-addr" \in DOMAIN ret.ads.dict

\* some pod in component c's namespace is owned by a ReplicaSet that c's
\* Deployment owns
OwnsPods(c) ==
    \E pod \in pods, rs \in rsets :
        /\ pod.namespace = ctl[c].namespace
        /\ \E i \in DOMAIN rs.orefs : rs.orefs[i].uid = store[DeploymentKey(c)].uid
        /\ \E i \in DOMAIN pod.orefs : pod.orefs[i].uid = rs.uid

\* C7: under the scale-down overlay the Status of any component is ready with
\* "deployment scaled down" iff no pod of the namespace is owned by a
\* ReplicaSet the workload owns, and else not ready with "deployment scaling
\* down", whatever the workload's replica counters are.
C7_ScaleDownReadiness ==
    ret.op = "Status" /\ ret.was.overlay = ScaleDownOverlay /\ ret.status # <<>> =>
        IF OwnsPods(mc)
        THEN ~ret.status[1].Ready /\ ret.status[1].Message = "deployment scaling down"
        ELSE ret.status[1].Ready /\ ret.status[1].Message = "deployment scaled down"

\* the cache reported ready under scale-down while a pod of its workload is
\* still there
C7_CacheReadyWithPods ==
    /\ mc = "redis" /\ ret.op = "Status"
    /\ ret.was.overlay = ScaleDownOverlay /\ ret.status # <<>>
    /\ OwnsPods(mc)
    /\ ret.status[1].Ready

\* the declared desired-replica count of component c's workload, 0 when none
\* is declared
Desired(c) ==
    IF store[DeploymentKey(c)].replicas = <<>> THEN 0
    ELSE store[DeploymentKey(c)].replicas[1]

\* the counters of component c's workload that its readiness rests on equal
\* the desired count
FullyAvailable(c) ==
    /\ store[DeploymentKey(c)].status.available = Desired(c)
    /\ c = "clair" => store[DeploymentKey(c)].status.updated = Desired(c)

\* C8: under an applied overlay other than scale-down, Status reports ready
\* iff the available-replica count equals the declared desired count (0 when
\* undeclared) and, for the scanner only, the updated-replica count does too;
\* when not ready the message is "deployment not fully available yet".
C8_SteadyReadiness ==
    ret.op = "Status" /\ ret.status # <<>>
        /\ ret.was.overlay \notin {NotAppliedOverlay, ScaleDownOverlay} =>
        /\ ret.status[1].Ready = FullyAvailable(mc)
        /\ ~FullyAvailable(mc) =>
              ret.status[1].Message = "deployment not fully available yet"

\* the scanner is not ready with every desired replica available, for one of
\* them is not updated
C8_ScannerNotUpdated ==
    /\ mc = "clair" /\ ret.op = "Status" /\ ret.status # <<>>
    /\ ret.was.overlay = BaseOverlay
    /\ store[DeploymentKey(mc)].status.available = Desired(mc)
    /\ store[DeploymentKey(mc)].status.updated # Desired(mc)
    /\ ~ret.status[1].Ready

\* the keys the last Apply patched successfully for the objects before the k-th
PatchedBefore(k) ==
    { ret.calls[i].key :
        i \in { n \in DOMAIN ret.calls :
                  /\ ret.calls[n].op = "Patch"
                  /\ ret.calls[n].outcome = "ok"
                  /\ ret.calls[n].i < k } }

\* the last Apply failed at the k-th rendered object
FailedAt(k) ==
    \E i \in DOMAIN ret.calls :
        /\ ret.calls[i].op \in {"OMutator", "Patch"}
        /\ ret.calls[i].outcome = "error"
        /\ ret.calls[i].i = k

\* C9: when Apply fails at the k-th rendered object, the objects before it in
\* rendered order, and only they, have been upserted: each is in the store as
\* rendered, no other object of the store changed, and no operation was
\* issued for the k-th object after the failure or for any later object.
C9_NoRollback ==
    ret.op = "Apply" /\ ret.err # NoErr /\ ret.objs # <<>> =>
        \E k \in DOMAIN ret.objs :
            /\ FailedAt(k)
            /\ \A j \in 1..(k - 1) :
                  \E key \in PatchedBefore(k) :
                      /\ Issued(Ev("Patch", "", key, j, "ok"))
                      /\ key \in DOMAIN store
                      /\ key.name = ret.objs[j].name
                      /\ store[key].data = ret.objs[j].data
                      /\ store[key].replicas = ret.objs[j].replicas
            /\ \A i \in DOMAIN ret.calls :
                  /\ ret.calls[i].i <= k
                  /\ ret.calls[i].i = k /\ ret.calls[i].outcome = "error"
                        => i = Len(ret.calls)
            /\ \A key \in DOMAIN store \ (PatchedBefore(k) \cup {CredKey}) :
                  key \in DOMAIN ret.was.store /\ store[key] = ret.was.store[key]

\* an Apply failed at its second or a later object after it had written the
\* first to a store that did not hold it
C9_FailedAfterFirst ==
    /\ ret.op = "Apply" /\ ret.err # NoErr
    /\ \E k \in 2..Len(ret.objs) : FailedAt(k)
    /\ \E key \in DOMAIN store : key \notin DOMAIN ret.was.store /\ key # CredKey

\* the needed keys the Ads of the last Apply lacks, in the order asked for
NotAdvertised ==
    SelectSeq(<<"dbhost", "dbport", "dbname", "dbrootuser", "dbrootpass">>,
              LAMBDA k : k \notin DOMAIN ret.in.dict)

\* C10: an Apply of the scanner with an Ads that lacks some of dbhost, dbport,
\* dbname, dbrootuser, dbrootpass fails with an error naming every missing
\* key; it issues no write, the store is as it was and the current overlay is
\* unchanged.
C10_MissingAds ==
    ret.op = "Apply" /\ mc = "clair" /\ NotAdvertised # <<>> =>
        /\ ret.err # NoErr
        /\ ret.err[Len(ret.err)] = Join(NotAdvertised, ",") \o " indexes not advertised"
        /\ \A i \in DOMAIN ret.calls : ret.calls[i].op \notin {"Patch", "Create"}
        /\ store = ret.was.store
        /\ ctl[mc].overlay = ret.was.overlay

\* the scanner, applied before, was applied again with an Ads short of two keys
C10_TwoMissing ==
    /\ ret.op = "Apply" /\ mc = "clair"
    /\ Len(NotAdvertised) = 2
    /\ hist.applied /\ ctl[mc].overlay # "" /\ DOMAIN store # {}

\* the Patch operations among calls, in the order issued
Patches(calls) == SelectSeq(calls, LAMBDA e : e.op = "Patch")

\* the same Apply as the last call, made again on the state it left: the same
\* overlay and Ads, no remote failure, the gen-th uuid draw
Reapplied(gen) ==
    KustCtrlApply(mc, ctl[mc], from[mc], store, ret.arg, ret.in, NoFault, gen)

\* C11: when an Apply has succeeded, applying the same overlay again with the
\* same Ads on the store it left creates no credential record, renders the
\* same sequence of objects with the same content and submits them in the
\* same order, leaves the store as it is, and leaves the same current overlay.
C11_IdempotentReapply ==
    ret.op = "Apply" /\ ret.err = NoErr =>
        \A gen \in Gens(mc) :
            /\ Reapplied(gen).err = NoErr
            /\ \A i \in DOMAIN Reapplied(gen).calls :
                  Reapplied(gen).calls[i].op # "Create"
            /\ Reapplied(gen).objs = ret.objs
            /\ Patches(Reapplied(gen).calls) = Patches(ret.calls)
            /\ Reapplied(gen).store = store
            /\ Reapplied(gen).overlay = ctl[mc].overlay

\* the database's first Apply created the credential record and rendered its
\* objects with the passwords it drew
C11_FirstApplyCreated ==
    /\ mc = "postgres" /\ ret.op = "Apply" /\ ret.err = NoErr
    /\ ret.arg = BaseOverlay
    /\ Created(ret.calls)
    /\ Len(Patches(ret.calls)) = Len(ret.objs) /\ Len(ret.objs) >= 3

\* C12: in the driver, a component's Status is called only after its Apply
\* returned success; its Advertise is called only right after a Status that
\* returned ready; the next component's Apply is called only right after that
\* Advertise returned, with exactly the Ads it returned; and the calls on one
\* component are not interleaved with calls on another.
C12_DriverOrder ==
    \A i \in DOMAIN drv.log :
        /\ drv.log[i].op = "Status" =>
              \E j \in 1..(i - 1) :
                  /\ drv.log[j].comp = drv.log[i].comp
                  /\ drv.log[j].op = "Apply" /\ drv.log[j].ok
        /\ drv.log[i].op = "Advertise" =>
              /\ i > 1
              /\ drv.log[i - 1].comp = drv.log[i].comp
              /\ drv.log[i - 1].op = "Status"
              /\ drv.log[i - 1].ok /\ drv.log[i - 1].ready
        /\ drv.log[i].op = "Apply" /\ i > 1 =>
              /\ drv.log[i - 1].comp # drv.log[i].comp
              /\ drv.log[i - 1].op = "Advertise" /\ drv.log[i - 1].ok
              /\ drv.log[i].in = drv.log[i - 1].out
        /\ \A j \in 1..i, k \in 1..i :
              j <= k /\ drv.log[j].comp = drv.log[i].comp
                  => drv.log[k].comp = drv.log[i].comp

\* the driver polled the database while it was not ready, advertised it and
\* applied the scanner with what it advertised
C12_ScannerApplied ==
    /\ \E j \in DOMAIN drv.log :
          /\ drv.log[j].comp = "postgres" /\ drv.log[j].op = "Status"
          /\ drv.log[j].ok /\ ~drv.log[j].ready
    /\ \E i \in DOMAIN drv.log :
          /\ drv.log[i].comp = "clair" /\ drv.log[i].op = "Apply"
          /\ "dbrootpass" \in DOMAIN drv.log[i].in.dict

\* the connection string made of the five needed values of dictionary d
FiveFieldString(d) ==
    "host=" \o d["dbhost"] \o " port=" \o d["dbport"] \o " dbname=" \o d["dbname"]
    \o " user=" \o d["dbrootuser"] \o " password=" \o d["dbrootpass"]
    \o " sslmode=disable"

\* the scanner's config secret among the objects the last Apply rendered
ClairConfigSecrets ==
    { i \in DOMAIN ret.objs :
        ret.objs[i].kind = "Secret"
        /\ ret.objs[i].name = ctl["clair"].namePrefix \o "-clair-config" }

\* C13: what the database advertises once applied with "base" and ready has
\* exactly the keys dbhost, dbport, dbuser, dbpass, dbname, dbrootuser and
\* dbrootpass; the scanner's Apply with that Ads passes the needed-key check,
\* and the connection strings of its rendered config secret are made of the
\* values of dbhost, dbport, dbname, dbrootuser and dbrootpass of that Ads.
C13_AdvertisedToScanner ==
    /\ \A i \in DOMAIN drv.log :
          drv.log[i].comp = "postgres" /\ drv.log[i].op = "Advertise" /\ drv.log[i].ok
              => DOMAIN drv.log[i].out.dict =
                    {"dbhost", "dbport", "dbuser", "dbpass", "dbname", "dbrootuser",
                     "dbrootpass"}
    /\ ret.op = "Apply" /\ mc = "clair" =>
          /\ ret.in = drv.log[Len(drv.log) - 1].out
          /\ \A n \in DOMAIN ret.err : ret.err[n] # "missing advertised data"
          /\ ret.err = NoErr => ClairConfigSecrets # {}
          /\ \A i \in ClairConfigSecrets :
                ret.objs[i].data["config.yaml"] =
                    MarshalConfig([Indexer |-> FiveFieldString(ret.in.dict),
                                   Matcher |-> FiveFieldString(ret.in.dict),
                                   Notifier |-> FiveFieldString(ret.in.dict)])

\* the scanner was applied with what the database advertised and rendered its
\* config secret
C13_ScannerConfigured ==
    /\ ret.op = "Apply" /\ mc = "clair" /\ ret.err = NoErr
    /\ ClairConfigSecrets # {}
    /\ ret.in.dict["dbrootpass"] # ret.in.dict["dbpass"]

\* C14: after any sequence of Put and Delete on an Ads, its zero value
\* included, Get(k) returns the value of the last Put(k, v) no Delete(k)
\* followed and "" when there is none; Put on an index that has a value
\* replaces it; Delete of an index that has none changes nothing.
C14_AdsMap ==
    /\ lab.op = "Get" =>
          lab.got = IF lab.idx \in DOMAIN lab.kept /\ lab.kept[lab.idx] # <<>>
                    THEN lab.kept[lab.idx][1] ELSE ""
    /\ lab.op = "Put" =>
          /\ ~lab.a.isnil
          /\ lab.a.dict[lab.idx] = lab.val
          /\ \A k \in DOMAIN lab.a.dict \ {lab.idx} :
                k \in DOMAIN lab.was.dict /\ lab.a.dict[k] = lab.was.dict[k]
    /\ lab.op = "Delete" /\ lab.idx \notin DOMAIN lab.was.dict => lab.a = lab.was

\* Get returned the second of two values put to an index
C14_Overwritten ==
    /\ lab.op = "Get" /\ lab.got = "6379"
    /\ DOMAIN lab.a.dict = AdsKeys

\* the given indexes the map did not have, in the order they were given
AbsentGiven ==
    LET absent(k) == k \notin DOMAIN lab.was.dict
    IN  SelectSeq(lab.indexes, absent)

\* C15: Contains succeeds iff every given index is in the map, whatever its
\* value, the empty string included; otherwise it returns one failure that
\* names exactly the given indexes that are absent, all of them, in the
\* order they were given. It never modifies the map.
C15_ContainsAll ==
    lab.op = "Contains" =>
       /\ lab.err = NoErr <=> \A i \in DOMAIN lab.indexes :
                                 lab.indexes[i] \in DOMAIN lab.was.dict
       /\ lab.err # NoErr =>
             lab.err = <<Join(AbsentGiven, ",") \o " indexes not advertised">>
       /\ lab.a = lab.was

\* Contains was given an absent index after one advertised as the empty
\* string and named the absent one alone
C15_EmptyValuePresent ==
    /\ lab.op = "Contains"
    /\ lab.indexes = <<"dbhost", "dbport">>
    /\ DOMAIN lab.was.dict = {"dbhost"} /\ lab.was.dict["dbhost"] = ""
    /\ lab.err = <<"dbport indexes not advertised">>

\* the directory the last Apply rendered
RenderedDir == PathJoin("kustomize", ret.arg)

\* the places of the resources with no typed form in the directory the last
\* Apply rendered, when the render ran
UnmappedRendered ==
    IF /\ ret.op = "Apply"
       /\ Issued(Ev("Run", RenderedDir, NoKey, 0, "ok"))
    THEN { i \in DOMAIN from[mc][RenderedDir] :
             from[mc][RenderedDir][i].gvk \notin MappedGvks }
    ELSE {}

\* C16: when an object rendered for an Apply has a kind/version with no typed
\* form, wherever it stands in the rendered sequence, the Apply fails as a
\* whole: it returns an error, no object is handed to a mutator or submitted,
\* every object of the store is as it was and no object but the database's
\* credential record was added, and the current overlay is unchanged.
C16_UnmappedFailsApply ==
    UnmappedRendered # {} =>
        /\ ret.err # NoErr
        /\ Len(ret.err) >= 2 /\ ret.err[2] = "error parsing object"
        /\ ret.objs = <<>>
        /\ \A i \in DOMAIN ret.calls : ret.calls[i].op \notin {"Patch", "OMutator"}
        /\ \A k \in DOMAIN ret.was.store :
              k \in DOMAIN store /\ Was(mc).store[k] = ret.was.store[k]
        /\ \A k \in DOMAIN store : k \in DOMAIN ret.was.store \/ k = CredKey
        /\ ctl[mc].overlay = ret.was.overlay

\* an Apply on an applied component rendered an unmapped object after mapped
\* ones and failed
C16_UnmappedAfterMapped ==
    /\ \E i \in UnmappedRendered : i > 1
    /\ ret.err # NoErr
    /\ ret.was.overlay = BaseOverlay
    /\ DOMAIN ret.was.store # {}

\* the driver can make a call
DriverCanCall ==
    ENABLED (DriverCreateCM \/ DriverApply \/ DriverStatus \/ DriverAdvertise)

\* C17: in the driver an error returned by Apply, by Status or by Advertise
\* terminates the driver at once: the failing call is the last call the
\* driver makes, on this component or on any other; the only call made again
\* is a Status after a Status that returned not ready without error.
C17_ErrorsAreFatal ==
    /\ \A i \in DOMAIN drv.log :
          ~drv.log[i].ok => i = Len(drv.log) /\ drv.pc = "fatal"
    /\ drv.pc = "fatal" => ~DriverCanCall
    /\ \A i \in DOMAIN drv.log :
          /\ i < Len(drv.log)
          /\ drv.log[i + 1].comp = drv.log[i].comp
          /\ drv.log[i + 1].op = drv.log[i].op
          => /\ drv.log[i].op = "Status"
             /\ drv.log[i].ok /\ ~drv.log[i].ready

\* the scanner's Status failed in a poll made after it returned not ready,
\* and the driver stopped
C17_PollFailed ==
    /\ drv.pc = "fatal" /\ mc = "clair"
    /\ Len(drv.log) >= 2
    /\ drv.log[Len(drv.log)] = Called("clair", "Status", RemoteErr, FALSE, ZeroAds, ZeroAds)
    /\ drv.log[Len(drv.log) - 1].op = "Status"
    /\ ~drv.log[Len(drv.log) - 1].ready

\* component c is ready: a Status that reaches the store returns Ready
ReadyNow(c) ==
    LET r == StatusFor(c, ctl[c], store, rsets, pods, NoFault)
    IN  r.err = NoErr /\ r.status # <<>> /\ r.status[1].Ready

\* the driver made a call of op on component c
DriverCalled(c, op) ==
    \E i \in DOMAIN drv.log : drv.log[i].comp = c /\ drv.log[i].op = op

\* a Status of component c returned an error to the driver
StatusFailed(c) ==
    \E i \in DOMAIN drv.log :
        drv.log[i].comp = c /\ drv.log[i].op = "Status" /\ ~drv.log[i].ok

\* the step is a Status that returned not ready and no error
PolledNotReady ==
    /\ drv.pc = "Status"
    /\ ret'.op = "Status" /\ ret'.err = NoErr /\ ~ret'.status[1].Ready

\* C18: the driver's readiness poll has no bound.  A Status that returns not
\* ready without error leaves the driver polling the same component, with
\* another poll to make; the driver leaves the poll for Advertise only on a
\* Status that returned ready, and otherwise only by the exit on an error.
\* If the component is ready from some poll on and Status does not fail, the
\* driver eventually calls Advertise on it, the poll loop being scheduled
\* fairly.
C18_UnboundedPoll ==
    /\ [][PolledNotReady =>
             /\ drv'.pc = "Status" /\ mc' = mc
             /\ ENABLED DriverStatus]_vars
    /\ [][drv.pc = "Status" /\ drv'.pc # "Status" =>
             \/ drv'.pc = "fatal"
             \/ /\ drv'.pc = "Advertise" /\ mc' = mc
                /\ ret'.op = "Status" /\ ret'.err = NoErr /\ ret'.status[1].Ready]_vars
    /\ \A c \in Comps :
          []((drv.pc = "Status" /\ mc = c /\ []ReadyNow(c) /\ []~StatusFailed(c))
                => <>DriverCalled(c, "Advertise"))

\* the driver polled the scanner while it was not ready, polled again when it
\* was, and called Advertise
C18_AdvertisedAfterPolls ==
    \E i \in DOMAIN drv.log :
        /\ i + 2 <= Len(drv.log)
        /\ drv.log[i] = Called("clair", "Status", NoErr, FALSE, ZeroAds, ZeroAds)
        /\ drv.log[i + 1] = Called("clair", "Status", NoErr, TRUE, ZeroAds, ZeroAds)
        /\ drv.log[i + 2].op = "Advertise"

\* the namespaces and the owner references the component was configured with
\* by WithNamespace and WithOwnerReference
ConfiguredNamespaces ==
    { ctl[mc].OMutators[i].namespace :
        i \in { j \in DOMAIN ctl[mc].OMutators :
                  ctl[mc].OMutators[j].fn = "SetNamespace" } }

ConfiguredOwners ==
    { ctl[mc].OMutators[i].oref :
        i \in { j \in DOMAIN ctl[mc].OMutators :
                  ctl[mc].OMutators[j].fn = "AppendOwnerReference" } }

\* the keys of the objects the last call wrote to the store
Written ==
    { ret.calls[i].key :
        i \in { j \in DOMAIN ret.calls :
                  /\ ret.calls[j].op \in {"Patch", "Create"}
                  /\ ret.calls[j].outcome = "ok" } }

\* C19: when a component is configured with WithNamespace(ns) and
\* WithOwnerReference(ref), every object an Apply writes to the store, each
\* rendered object and for the database also the credential record, is in
\* namespace ns and has ref among its owner references.
C19_NamespaceAndOwner ==
    /\ ret.op = "Apply"
    /\ ConfiguredNamespaces # {} /\ ConfiguredOwners # {}
    => \A key \in Written :
          /\ key \in DOMAIN store
          /\ \A ns \in ConfiguredNamespaces :
                key.namespace = ns /\ store[key].namespace = ns
          /\ \A ref \in ConfiguredOwners :
                \E n \in DOMAIN store[key].orefs : store[key].orefs[n] = ref

\* the database, configured as main configures it, created its credential
\* record and wrote every rendered object in one Apply
C19_DatabaseWroteAll ==
    /\ mc = "postgres" /\ ret.op = "Apply" /\ ret.err = NoErr
    /\ ConfiguredNamespaces = {"rmarasch"} /\ ConfiguredOwners = {TestingRef}
    /\ CredKey \in Written
    /\ Cardinality(Written) >= 4

\* some Pod in the database's namespace has an owner reference of kind
\* ReplicaSet to a ReplicaSet in that namespace that has an owner reference of
\* kind Deployment with the UID of the database's Deployment
TwoHops ==
    \E pod \in pods, rs \in rsets :
        /\ pod.namespace = ctl[mc].namespace
        /\ rs.namespace = ctl[mc].namespace
        /\ \E i \in DOMAIN pod.orefs :
              pod.orefs[i].kind = "ReplicaSet" /\ pod.orefs[i].uid = rs.uid
        /\ \E j \in DOMAIN rs.orefs :
              /\ rs.orefs[j].kind = "Deployment"
              /\ rs.orefs[j].uid = store[DeploymentKey(mc)].uid

\* C20: the database's dangling-pod check returns true iff some Pod in the
\* component's namespace has an owner reference of kind ReplicaSet whose UID
\* is that of a ReplicaSet in the namespace which has an owner reference with
\* the Deployment's UID and kind Deployment; the scaled-down database is
\* reported as scaling down and not ready exactly then.  ReplicaSets of
\* another workload, references with the UID and another kind at either hop
\* and Pods of no retained ReplicaSet do not count, and the Pod's phase
\* plays no part.
C20_DanglingPods ==
    /\ mc = "postgres" /\ ctl[mc].overlay = ScaleDownOverlay
          /\ DeploymentKey(mc) \in DOMAIN store
       => (hasDanglingPods(ctl[mc], store[DeploymentKey(mc)], rsets, pods,
                           NoFault).has <=> TwoHops)
    /\ mc = "postgres" /\ ctl[mc].overlay = ScaleDownOverlay
          /\ ret.op = "Status" /\ ret.err = NoErr
       => /\ ret.status[1].Ready <=> ~TwoHops
          /\ ret.status[1].Message = IF TwoHops THEN "deployment scaling down"
                                     ELSE "deployment scaled down"

\* Status found the database scaled down among every ReplicaSet and every Pod
\* but the one of its own ReplicaSet in its namespace
C20_NothingCounts ==
    /\ ret.op = "Status" /\ ret.err = NoErr /\ ret.status[1].Ready
    /\ rsets = ReplicaSetsAround(mc)
    /\ Cardinality(pods) = Cardinality(PodsAround(mc)) - 1

\* the places in the last call's operations of those whose op is in ops
CallsOf(ops) == { n \in DOMAIN ret.calls : ret.calls[n].op \in ops }

\* the object-level mutators that ran on the i-th object, in the order run
MutatorsRunOn(i) ==
    LET on(e) == e.op = "OMutator" /\ e.i = i
        evs == SelectSeq(ret.calls, on)
    IN  [n \in DOMAIN evs |-> evs[n].what]

\* C21: in one Apply every template-level mutator, the credential reads and
\* writes of the database's included, has completed before the compositor
\* runs, and the compositor has run before any object-level mutator runs and
\* before any object is submitted; the rendered objects are then processed one
\* after another in rendered order, and every registered object-level mutator
\* has run on an object, in order, before it is submitted and before the next
\* object is touched.
C21_PipelineOrder ==
    ret.op = "Apply" =>
        /\ \A k \in CallsOf({"KMutator", "Get", "Create"}), r \in CallsOf({"Run"}) :
              k < r
        /\ \A r \in CallsOf({"Run"}), o \in CallsOf({"OMutator", "Patch"}) : r < o
        /\ CallsOf({"OMutator", "Patch"}) # {} => Cardinality(CallsOf({"Run"})) = 1
        /\ CallsOf({"Run"}) # {} =>
              Cardinality({ k \in CallsOf({"KMutator"}) : ret.calls[k].outcome = "ok" })
                 = Len(ctl[mc].KMutators)
        /\ \A a, b \in CallsOf({"OMutator", "Patch"}) :
              a < b => ret.calls[a].i <= ret.calls[b].i
        /\ \A b \in CallsOf({"Patch"}) :
              /\ ret.calls[b].key.name = ret.objs[ret.calls[b].i].name
              /\ \A a \in CallsOf({"OMutator", "Patch"}) \ {b} :
                    ret.calls[a].i = ret.calls[b].i
                       => a < b /\ ret.calls[a].op = "OMutator"
              /\ MutatorsRunOn(ret.calls[b].i)
                    = [n \in DOMAIN ctl[mc].OMutators |-> ctl[mc].OMutators[n].fn]

\* the database's Apply created the credential record, rendered, and ran three
\* object-level mutators on each of its objects before submitting it
C21_FullPipeline ==
    /\ mc = "postgres" /\ ret.op = "Apply" /\ ret.err = NoErr
    /\ CallsOf({"Create"}) # {}
    /\ Len(ctl[mc].OMutators) = 3
    /\ Cardinality(CallsOf({"Patch"})) >= 3
    /\ Cardinality(CallsOf({"OMutator"})) = 3 * Cardinality(CallsOf({"Patch"}))

\* sequence s is the beginning of sequence t
IsPrefix(s, t) == Len(s) <= Len(t) /\ \A n \in DOMAIN s : s[n] = t[n]

\* the template-level mutators the last call ran, in the order run
KMutatorsRun ==
    LET km(e) == e.op = "KMutator"
        evs == SelectSeq(ret.calls, km)
    IN  [n \in DOMAIN evs |-> evs[n].what]

\* C22: at each of the two extension points the mutators run one at a time in
\* the order they were registered.  The first template-level mutator that
\* fails is the last one run: the compositor does not run, no object-level
\* mutator runs and nothing is submitted.  The first object-level mutator that
\* fails is the last operation of the Apply: no later mutator runs on this
\* object or on a later one and nothing more is submitted.  In both cases
\* Apply returns an error.
C22_MutatorsInOrder ==
    ret.op = "Apply" =>
        /\ IsPrefix(KMutatorsRun, ctl[mc].KMutators)
        /\ \A i \in 1..Len(ret.objs) :
              IsPrefix(MutatorsRunOn(i),
                       [n \in DOMAIN ctl[mc].OMutators |-> ctl[mc].OMutators[n].fn])
        /\ \A k \in CallsOf({"KMutator"}) :
              ret.calls[k].outcome = "error" =>
                 /\ \A n \in DOMAIN ret.calls :
                       n > k => ret.calls[n].op \in {"Get", "Create"}
                 /\ Len(ret.err) >= 3
                 /\ ret.err[3] = "error mutating kustomization"
        /\ \A o \in CallsOf({"OMutator"}) :
              ret.calls[o].outcome = "error" =>
                 /\ o = Len(ret.calls)
                 /\ ret.err # NoErr /\ ret.err[1] = "error mutating object"

\* the first of three object-level mutators failed on the second object after
\* the first object was submitted
C22_FirstMutatorFailed ==
    /\ ret.op = "Apply" /\ ret.err # NoErr
    /\ Len(ctl[mc].OMutators) = 3 /\ ctl[mc].OMutators[1].fn = "custom"
    /\ ret.calls[Len(ret.calls)] =
          Ev("OMutator", "custom", ret.calls[Len(ret.calls)].key, 2, "error")
    /\ Cardinality(CallsOf({"Patch"})) = 1
    /\ Len(ret.objs) >= 3

\* call r found the record absent when it read it
FoundAbsent(r) ==
    \E n \in DOMAIN procs[r].calls :
        procs[r].calls[n] = Ev("Get", "", CredKey, 0, "notfound")

\* call r issued a create for the record
IssuedCreate(r) ==
    \E n \in DOMAIN procs[r].calls :
        procs[r].calls[n].op = "Create" /\ procs[r].calls[n].key = CredKey

\* C23: two concurrent first-time Applies of one database identity can race.
\* Nothing makes a call wait for the other: a call that has not read the
\* record can read it whatever the other call is doing, and a call that found
\* the record absent holds a pair of passwords of its own and goes on to
\* issue a create for the record, whatever the store holds by then.  So the
\* state in which both found it absent and both issued a create is reached.
C23_CheckThenCreate ==
    \A r \in DOMAIN procs :
        /\ procs[r].pc = "get" => ENABLED RaceGet(r)
        /\ procs[r].pc = "create" =>
              /\ FoundAbsent(r)
              /\ procs[r].cred = <<NewUUIDs(procs[r].gen).pass,
                                   NewUUIDs(procs[r].gen).rootpass>>
              /\ \A o \in DOMAIN procs \ {r} : procs[o].cred # procs[r].cred
              /\ ENABLED RaceCreate(r)
        /\ FoundAbsent(r) /\ procs[r].pc \in {"rest", "done"} => IssuedCreate(r)

\* both Applies found the record absent, drew passwords of their own and
\* issued a create for the same record
C23_BothCreate ==
    /\ \A r \in DOMAIN procs : FoundAbsent(r) /\ IssuedCreate(r)
    /\ procs["first"].gen # procs["second"].gen
    /\ procs["first"].gen # 0 /\ procs["second"].gen # 0

\* the create of call r had the given outcome
CreateEnded(r, outcome) ==
    \E n \in DOMAIN procs[r].calls :
        procs[r].calls[n] = Ev("Create", "", CredKey, 0, outcome)

\* the passwords of the record in the store
StoredPasswords ==
    <<DataGet(store[CredKey].data, "pass"), DataGet(store[CredKey].data, "rootpass")>>

\* C24: the store's create being atomic per object and rejecting a name that
\* exists, under any interleaving of two concurrent Applies of one database
\* identity at most one create of the credential record succeeds; the Apply
\* whose create is rejected returns an error, renders nothing and submits
\* nothing; and every Apply that gets past the credential step holds, and
\* renders into its generated secret, exactly the pass and rootpass stored in
\* the record.
C24_OneCreateWins ==
    /\ \A r, o \in DOMAIN procs : CreateEnded(r, "ok") /\ CreateEnded(o, "ok") => r = o
    /\ \A r \in DOMAIN procs :
          CreateEnded(r, "error") =>
             /\ procs[r].pc = "done" /\ procs[r].err # NoErr
             /\ \E n \in DOMAIN procs[r].err :
                   procs[r].err[n] = "error creating pgsql secret data"
             /\ procs[r].objs = <<>>
             /\ \A n \in DOMAIN procs[r].calls :
                   procs[r].calls[n].op \notin {"Run", "OMutator", "Patch"}
             /\ procs[r].cur = NotAppliedOverlay
    /\ \A r \in DOMAIN procs :
          procs[r].pc = "rest" \/ (procs[r].pc = "done" /\ ~CreateEnded(r, "error")) =>
             /\ CredKey \in DOMAIN store
             /\ procs[r].cred = StoredPasswords
             /\ \A i \in DOMAIN procs[r].objs :
                   procs[r].objs[i].name
                         = ctl["postgres"].namePrefix \o "-postgres-config-secret" =>
                      /\ procs[r].objs[i].data["database-password"] = StoredPasswords[1]
                      /\ procs[r].objs[i].data["database-root-password"]
                            = StoredPasswords[2]

\* both Applies drew passwords; the create of one was rejected and the other
\* one rendered its objects with the stored passwords
C24_LoserFailed ==
    \E r, o \in DOMAIN procs :
        /\ CreateEnded(r, "ok") /\ CreateEnded(o, "error")
        /\ procs[r].pc = "done" /\ procs[r].err = NoErr /\ Len(procs[r].objs) >= 3
        /\ procs[o].cred # StoredPasswords

\* what the store holds now makes component c ready under its current overlay
ReadyByContent(c) ==
    IF ctl[c].overlay # ScaleDownOverlay THEN FullyAvailable(c)
    ELSE CASE c = "postgres" -> ~TwoHops
           [] c = "redis" -> store[DeploymentKey(c)].status.available = 0
           [] c = "clair" -> /\ store[DeploymentKey(c)].status.available = 0
                             /\ store[DeploymentKey(c)].status.updated = 0

\* C25: Status writes nothing to the store and leaves the current overlay as
\* it is, and its verdict is a function of the current overlay and of what
\* the store holds when it is called: whatever the calls and the changes
\* before it, a Status that returns a verdict returns the one the store's
\* content gives, so two calls over the same content agree and a change of
\* the store between two calls shows in the second.
C25_StatusIsFresh ==
    /\ [](ret.op = "Status" /\ ret.err = NoErr =>
             /\ ret.status # <<>>
             /\ ret.status[1].Ready <=> ReadyByContent(mc))
    /\ [][ret'.op = "Status" =>
             /\ store' = store /\ rsets' = rsets /\ pods' = pods
             /\ ctl' = ctl]_vars

\* Status returned ready for a workload whose counters the platform wrote
\* after the Apply that declared one replica
C25_ReportReflected ==
    /\ ret.op = "Status" /\ ret.err = NoErr /\ ret.status[1].Ready
    /\ ctl[mc].overlay = BaseOverlay
    /\ Desired(mc) = 1
    /\ store[DeploymentKey(mc)].status.available = 1

\* conditions a workload may carry besides Available, one of them with a
\* lastTransitionTime that does not decode
ProgressingCondition ==
    [type |-> "Progressing", status |-> "False", lastUpdateTime |-> "t3",
     lastTransitionTime |-> "t2", reason |-> "ProgressDeadlineExceeded",
     message |-> "ReplicaSet has timed out progressing."]

UndecodableCondition ==
    [type |-> "Available", status |-> "True", lastUpdateTime |-> "t1",
     lastTransitionTime |-> "not a time", reason |-> "MinimumReplicasAvailable",
     message |-> ""]

\* the lists of up to two of these conditions
ConditionLists ==
    UNION { [1..n -> {AvailableCondition, ProgressingCondition, UndecodableCondition}] :
              n \in 0..2 }

\* Status of the component over the store as it is, the workload carrying the
\* conditions cs
StatusWithConditions(cs) ==
    StatusFor(mc, ctl[mc],
              [store EXCEPT ![DeploymentKey(mc)].status.conditions = cs],
              rsets, pods, NoFault)

\* the generic condition an appsv1.DeploymentCondition d translates to
Translated(d) ==
    [type |-> d.type, status |-> d.status, observedGeneration |-> 0,
     lastTransitionTime |-> d.lastTransitionTime, reason |-> d.reason,
     message |-> d.message]

\* C26: when a condition of the workload cannot be re-encoded into the generic
\* shape, Status returns an error and no verdict, whatever the replica
\* counters and the pods would give; otherwise the conditions it returns are
\* the workload's, one for one and in the same order, in the ready and in the
\* not-ready result alike.
C26_ConditionsOrError ==
    /\ DeploymentKey(mc) \in DOMAIN store /\ ctl[mc].overlay # NotAppliedOverlay =>
          \A cs \in ConditionLists :
              IF \E n \in DOMAIN cs : cs[n] = UndecodableCondition
              THEN /\ StatusWithConditions(cs).err # NoErr
                   /\ StatusWithConditions(cs).status = <<>>
              ELSE /\ StatusWithConditions(cs).err = NoErr
                   /\ StatusWithConditions(cs).status[1].Ready = ReadyByContent(mc)
                   /\ StatusWithConditions(cs).status[1].Conditions
                         = [n \in DOMAIN cs |-> Translated(cs[n])]
    /\ ret.op = "Status" /\ ret.err = NoErr =>
          ret.status[1].Conditions
             = [n \in DOMAIN store[DeploymentKey(mc)].status.conditions |->
                   Translated(store[DeploymentKey(mc)].status.conditions[n])]

\* Status returned not ready and the one condition the platform reported
C26_NotReadyWithCondition ==
    /\ ret.op = "Status" /\ ret.err = NoErr /\ ~ret.status[1].Ready
    /\ Len(ret.status[1].Conditions) = 1
    /\ ret.status[1].Conditions[1].type = "Available"
    /\ ~ReadyByContent(mc)

\* Status of the component over the store as it is, the workload declaring
\* the desired count replicas (<<>> when it declares none)
StatusDeclaring(replicas) ==
    StatusFor(mc, ctl[mc],
              [store EXCEPT ![DeploymentKey(mc)].replicas = replicas],
              rsets, pods, NoFault)

\* the counters the scaled-down verdict of the cache and of the scanner is
\* taken from
CountersAtZero ==
    /\ store[DeploymentKey(mc)].status.available = 0
    /\ mc = "clair" => store[DeploymentKey(mc)].status.updated = 0

NextApply(overlay, gen) ==
    KustCtrlApply(mc, ctl[mc], from[mc], store, overlay, ret.in, NoFault, gen)

\* the pass and rootpass the credential record holds
StoredCredentials ==
    << store[CredKey].data["pass"], store[CredKey].data["rootpass"] >>

\* the last call was an Apply of the database that created the credential
\* record and failed afterwards
CreatedThenFailed ==
    /\ mc = "postgres" /\ ret.op = "Apply"
    /\ Created(ret.calls) /\ ret.err # NoErr

\* the generated database secret among the objects objs
ConfigSecretsOf(objs) ==
    { i \in DOMAIN objs :
        objs[i].kind = "Secret"
        /\ objs[i].name = ctl["postgres"].namePrefix \o "-postgres-config-secret" }

\* C28: when an Apply of the database creates the credential record and fails
\* at a later step, the record stays in the store with the passwords the call
\* drew, the current overlay is as the call found it, and the next Apply,
\* whatever its overlay and whatever it would draw, creates nothing, reads the
\* record and renders the database secret with the record's pass and rootpass.
C28_RecordOutlivesFailure ==
    CreatedThenFailed =>
        /\ CredKey \notin DOMAIN ret.was.store
        /\ CredKey \in DOMAIN store
        /\ StoredCredentials = ret.cred
        /\ ctl[mc].overlay = ret.was.overlay
        /\ \A overlay \in OverlayNames, gen \in Gens(mc) :
              /\ \A i \in DOMAIN NextApply(overlay, gen).calls :
                    NextApply(overlay, gen).calls[i].op # "Create"
              /\ NextApply(overlay, gen).calls[2] = Ev("Get", "", CredKey, 0, "ok")
              /\ NextApply(overlay, gen).cred = StoredCredentials
              /\ NextApply(overlay, gen).store[CredKey] = store[CredKey]
              /\ \A i \in ConfigSecretsOf(NextApply(overlay, gen).objs) :
                    /\ NextApply(overlay, gen).objs[i].data["database-password"]
                          = StoredCredentials[1]
                    /\ NextApply(overlay, gen).objs[i].data["database-root-password"]
                          = StoredCredentials[2]
              /\ overlay \in {BaseOverlay, ScaleDownOverlay} =>
                    /\ NextApply(overlay, gen).err = NoErr
                    /\ ConfigSecretsOf(NextApply(overlay, gen).objs) # {}

\* the first Apply of the database created the record and failed at an upsert
\* of a rendered object
C28_CreatedThenUpsertFailed ==
    /\ CreatedThenFailed /\ ~hist.applied
    /\ \E i \in DOMAIN ret.calls :
          ret.calls[i].op = "Patch" /\ ret.calls[i].outcome = "error"

\* C29: with the component's own calls the only writers of the store, an
\* Advertise writes nothing to the store and leaves the current overlay as it
\* is: the cache and the scanner issue no store operation in it, the database
\* issues at most the read of its credential record, and that record is in
\* the store whenever the database's current overlay is neither "" nor
\* "scale-down".
C29_AdvertiseWritesNothing ==
    /\ ret.op = "Advertise" =>
          /\ store = ret.was.store
          /\ ctl[mc].overlay = ret.was.overlay
          /\ mc \in {"redis", "clair"} => ret.calls = <<>>
          /\ mc = "postgres" =>
                \/ ret.calls = <<>>
                \/ ret.calls = <<Ev("Get", "", CredKey, 0, "ok")>>
                \/ ret.calls = <<Ev("Get", "", CredKey, 0, "error")>>
          /\ mc = "postgres"
                /\ ret.was.overlay \notin {NotAppliedOverlay, ScaleDownOverlay} =>
                ret.calls # <<>>
    /\ mc = "postgres"
          /\ ctl[mc].overlay \notin {NotAppliedOverlay, ScaleDownOverlay} =>
          CredKey \in DOMAIN store

\* the database advertised under the base overlay and found its credential
\* record by the one read it issued
C29_ReadOnlyAdvertise ==
    /\ mc = "postgres" /\ ret.op = "Advertise"
    /\ ret.was.overlay = BaseOverlay
    /\ ret.calls = <<Ev("Get", "", CredKey, 0, "ok")>>
    /\ DOMAIN store # {CredKey}

====
